---- MODULE Spec2Model ----
(***************************************************************************)
(* A model of php-diagls: the unified-diff engine (utils.ApplyUnifiedDiff),*)
(* the process gateway (container.RunCommandInContainer), the diagnostic   *)
(* aggregator (Server.collectDiagnostics) and the debounced, generation-   *)
(* fenced scheduler of the server.                                         *)
(*                                                                         *)
(* Text is modelled as a sequence of one-character strings, so that        *)
(* strings.Split, strings.Join, strings.HasPrefix, the hunk-header regular *)
(* expression and strconv.Atoi are computed as the code computes them.     *)
(***************************************************************************)
EXTENDS Integers, Sequences, FiniteSets, TLC

\* ------------------------------------------------------------------ bounds

\* Longest original document, in lines, of the generated-diff specification.
MaxLines == 3
\* Most added ('+') lines of one generated diff.
MaxAdds == 1
\* Longest original content, in characters, of the no-op-diff specification.
MaxContentLen == 4
\* Longest whitespace-only diff, in characters.
MaxWsLen == 3
\* Most bytes a process writes to one of its output streams.
MaxOut == 1
\* Most diagnostics one provider returns for a file.
MaxDiags == 2
\* Most Schedule and SchedulePriority calls of one run.
MaxOps == 3
\* Most requests and notifications the client sends in one session.
MaxRequests == 4

\* ------------------------------------------------------------------ state

VARIABLES
    \* Diff engine: the inputs of one ApplyUnifiedDiff run and its outputs.
    origLines,        \* the original document, as lines
    script,           \* the edit script the diff text is generated from
    original,  \* the original content
    diffStr,          \* the diff text
    formatted,        \* what ApplyUnifiedDiff returned
    back,             \* what applying the reverse diff to the true target returned
    dpc               \* "input", "applied", "back"; "off" in the other specifications

diffVars == <<origLines, script, original, diffStr, formatted, back, dpc>>

VARIABLES
    \* Process gateway: one call of RunCommandInContainer.
    gpc,              \* "call", "select", "waitDone", "returned"; "off" elsewhere
    ctxErr,           \* ctx.Err(): "nil", "canceled" or "deadlineExceeded"
    dockerOnPath,     \* whether cmd.Start() can start the docker client
    proc,             \* the process: "none", "running", "exited"
    waitErr,          \* what cmd.Wait() returns once the process has exited
    stdout,           \* the stdout bytes.Buffer: nil (no backing array), or its length
    stderr,           \* the stderr bytes.Buffer
    done,             \* the done channel: empty, or the error sent on it
    ret,              \* the returned *CommandResult
    cancelledFirst    \* history: ctx was done while the process had not exited

gwVars == <<gpc, ctxErr, dockerOnPath, proc, waitErr, stdout, stderr, done, ret,
            cancelledFirst>>

VARIABLES
    \* Diagnostic aggregator: one call of Server.collectDiagnostics.
    cpc,              \* "call", "running", "returned"; "off" elsewhere
    filePath,         \* the file to analyse, as its path segments
    providerConfig,   \* s.serverConfig.DiagnosticsProviders, per provider id
    goroutine,        \* per provider: "none", "analyzing", "appending" (at
                      \* mu.Lock()), "locked", then "failed" (returned on the
                      \* error) or "done"
    analyzed,         \* per provider: the number of diagnostics Analyze returned
    diagnostics,      \* the shared slice the goroutines append to
    messages,         \* the window/showMessage notifications sent, in order
    wg,               \* the WaitGroup counter
    collected,        \* what collectDiagnostics returned
    mu,               \* the provider whose goroutine holds mu, or "free"
    snapshot          \* per provider: the slice its append read under mu

collVars == <<cpc, filePath, providerConfig, goroutine, analyzed, diagnostics,
              messages, wg, collected, mu, snapshot>>

VARIABLES
    \* Debounced scheduler: the per-key maps and the operations scheduled.
    generation,       \* per (uri, kind): the generation counter
    timers,           \* per (uri, kind): the operation whose timer is pending, or 0
    ops,              \* the operations, in the order they were scheduled
    published         \* the operations whose result was sent to the client, in order

schedVars == <<generation, timers, ops, published>>

VARIABLES
    \* PhpCsFixer.parseDiffForDiagnostics, one loop iteration per step.
    dgpc,             \* "input", "loop", "returned"; "off" elsewhere
    dgScript,         \* the edit the diff was generated from
    dgDiff,           \* diff, the argument
    dgLines,          \* lines := strings.Split(diff, "\n")
    dgNext,           \* the index in dgLines of the line the loop is at
    lineNum,          \* originalLineNum
    colNum,           \* originalColNum
    lineChange,       \* lineChange
    linesRange,       \* linesRange
    rangesOf          \* per diff line handled so far: the ranges it appended

diagVars == <<dgpc, dgScript, dgDiff, dgLines, dgNext, lineNum, colNum, lineChange,
              linesRange, rangesOf>>

VARIABLES
    \* The session: Server.Handle on the connection, and main.
    configOnDisk,     \* whether LoadConfig finds a usable .php-diagls.json
    initialized,      \* s.serverConfig.initialized
    configLoads,      \* how many times LoadConfig succeeded
    conn,             \* the stream of the connection: "open" or "closed"
    runLoop,          \* conn.Go's loop: "reading", or "done" once it returned
    process,          \* "running", "exited"; "off" elsewhere
    handled,          \* the requests Handle was called with, in order
    replies,          \* the replies sent, in order
    notified          \* the publishDiagnostics notifications sent, in order

sessVars == <<configOnDisk, initialized, configLoads, conn, runLoop, process,
              handled, replies, notified>>

VARIABLES
    \* Server.handleDidChangeWatchedFiles, one notification.
    wpc,              \* "received", "handled", "failed"; "off" elsewhere
    changes,          \* params.Changes: each a URI and a change type
    analysedUris,     \* the collectDiagnostics calls made, in order
    publications      \* the publishDiagnostics calls made, in order

watchVars == <<wpc, changes, analysedUris, publications>>

VARIABLES
    \* The document cache of the session.
    documents,        \* per URI: whether an entry exists, and its content
    notes             \* the document notifications received, in order

cacheVars == <<documents, notes>>

VARIABLES
    \* One request down to the external process: textDocument/formatting or a
    \* document notification through Server.Handle, or PhpCsFixer.Format
    \* called on its own.
    rpc,              \* "call", "format", "run", "formatted", then "done" or
                      \* "failed" (the handler returned an error); "off" elsewhere
    reqMethod,        \* what was called
    reqCtxErr,        \* Err() of the ctx the caller passed
    hasDeadline,      \* whether that ctx carries a deadline
    canFormat,        \* dp.config.Format.Enabled
    readable,         \* whether os.ReadFile(filePath) succeeds
    fileContent,      \* the content of the file
    toolOutput,       \* what the tool writes to its standard output
    ctxFrom,          \* the ctx RunCommandInContainer was called with: "request",
                      \* "timeout" (derived from it by WithTimeout) or "background"
    rulesLeft,        \* Analyze: the rules still to run, one process each
    fmtReturn,        \* what Format returned: content and error
    reqReply,         \* the reply of the handler
    shown             \* the window/showMessage notifications of the handler

reqVars == <<rpc, reqMethod, reqCtxErr, hasDeadline, canFormat, readable, fileContent,
             toolOutput, ctxFrom, rulesLeft, fmtReturn, reqReply, shown>>

VARIABLES
    \* The lock of one scheduler instance and the goroutines that take it.
    diagMu,           \* the task that holds the lock, or 0
    tasks             \* per task: where it stands, and the document it is for

lockVars == <<diagMu, tasks>>

VARIABLES
    \* The diagnostics providers of a session, over initialize and the
    \* analysis requests that follow it.
    loadStage,        \* "new", "initialized"; "off" elsewhere
    loadConfig,       \* s.serverConfig.DiagnosticsProviders, per provider id
    analyses,         \* the collectDiagnostics calls made so far
    probes,           \* per provider: the ValidateContainer calls made so far
    constructions     \* per provider: the providers constructed so far

loadVars == <<loadStage, loadConfig, analyses, probes, constructions>>

vars == <<diffVars, gwVars, collVars, schedVars, diagVars, sessVars, watchVars,
          cacheVars, reqVars, lockVars, loadVars>>

\* Most goroutines that use one scheduler, and most analysis requests of a
\* session.
MaxTasks == 3
MaxAnalyses == 3

Tasks == 1..MaxTasks
IdleTask == [pc |-> "idle", uri |-> "none"]

LockOff ==
    /\ diagMu = 0
    /\ tasks = [t \in Tasks |-> IdleTask]


WatchedOff ==
    /\ wpc = "off"
    /\ changes = <<>>
    /\ analysedUris = <<>>
    /\ publications = <<>>

\* Format has not returned; the handler has not replied.
NotReturned == [kind |-> "none", content |-> <<>>, err |-> "nil"]
NoReply == [kind |-> "none", edits |-> <<>>]

RequestOff ==
    /\ rpc = "off"
    /\ reqMethod = "none"
    /\ reqCtxErr = "nil"
    /\ hasDeadline = FALSE
    /\ canFormat = FALSE
    /\ readable = FALSE
    /\ fileContent = <<>>
    /\ toolOutput = <<>>
    /\ ctxFrom = "none"
    /\ rulesLeft = 0
    /\ fmtReturn = NotReturned
    /\ reqReply = NoReply
    /\ shown = <<>>

SessionOff ==
    /\ configOnDisk = FALSE
    /\ initialized = FALSE
    /\ configLoads = 0
    /\ conn = "open"
    /\ runLoop = "reading"
    /\ process = "off"
    /\ handled = <<>>
    /\ replies = <<>>
    /\ notified = <<>>

DiagnoseOff ==
    /\ dgpc = "off"
    /\ dgScript = <<>>
    /\ dgDiff = <<>>
    /\ dgLines = <<>>
    /\ dgNext = 0
    /\ lineNum = 0
    /\ colNum = 0
    /\ lineChange = FALSE
    /\ linesRange = <<>>
    /\ rangesOf = <<>>

Uris == {"a.php", "b.php"}
Kinds == {"diagnostics", "formatting"}
Keys == Uris \X Kinds

\* A URI the cache holds no entry for.
NoDocument == [exists |-> FALSE, content |-> <<>>]

CacheOff ==
    /\ documents = [u \in Uris |-> NoDocument]
    /\ notes = <<>>

SchedOff ==
    /\ generation = [k \in Keys |-> 0]
    /\ timers = [k \in Keys |-> 0]
    /\ ops = <<>>
    /\ published = <<>>

\* The provider ids a configuration names.
Providers == {"phpcsfixer", "phpstan", "phplint"}

LoadOff ==
    /\ loadStage = "off"
    /\ loadConfig = [p \in Providers |-> "disabled"]
    /\ analyses = 0
    /\ probes = [p \in Providers |-> 0]
    /\ constructions = [p \in Providers |-> 0]

\* A []protocol.Diagnostic: the nil slice, or a slice of elements.
NilSlice == [nil |-> TRUE, elems |-> <<>>]
Slice(elems) == [nil |-> FALSE, elems |-> elems]

CollectOff ==
    /\ cpc = "off"
    /\ filePath = <<>>
    /\ providerConfig = [p \in Providers |-> "disabled"]
    /\ goroutine = [p \in Providers |-> "none"]
    /\ analyzed = [p \in Providers |-> 0]
    /\ diagnostics = NilSlice
    /\ messages = <<>>
    /\ wg = 0
    /\ collected = NilSlice
    /\ mu = "free"
    /\ snapshot = [p \in Providers |-> NilSlice]

GatewayOff ==
    /\ gpc = "off"
    /\ ctxErr = "nil"
    /\ dockerOnPath = TRUE
    /\ proc = "none"
    /\ waitErr = [kind |-> "none"]
    /\ stdout = [nil |-> TRUE, len |-> 0]
    /\ stderr = [nil |-> TRUE, len |-> 0]
    /\ done = [kind |-> "empty"]
    /\ ret = [kind |-> "none"]
    /\ cancelledFirst = FALSE

DiffOff ==
    /\ origLines = <<>>
    /\ script = <<>>
    /\ original = <<>>
    /\ diffStr = <<>>
    /\ formatted = <<>>
    /\ back = <<>>
    /\ dpc = "off"

\* ------------------------------------------------------------------ text

NL == "\n"
TAB == "\t"

\* All sequences over S of length at most n.
SeqsUpTo(S, n) == UNION {[1..k -> S] : k \in 0..n}

\* strings.HasPrefix(s, prefix)
HasPrefix(s, prefix) ==
    /\ Len(s) >= Len(prefix)
    /\ SubSeq(s, 1, Len(prefix)) = prefix

\* strings.Split(s, "\n"): the pieces between newlines; always at least one
\* piece, and a trailing newline yields a trailing empty piece.
RECURSIVE SplitFrom(_, _, _)
SplitFrom(s, i, cur) ==
    IF i > Len(s) THEN <<cur>>
    ELSE IF s[i] = NL THEN <<cur>> \o SplitFrom(s, i + 1, <<>>)
    ELSE SplitFrom(s, i + 1, Append(cur, s[i]))

Split(s) == SplitFrom(s, 1, <<>>)

\* strings.Join(elems, "\n")
RECURSIVE Join(_)
Join(elems) ==
    IF Len(elems) = 0 THEN <<>>
    ELSE IF Len(elems) = 1 THEN elems[1]
    ELSE elems[1] \o <<NL>> \o Join(Tail(elems))

\* ------------------------------------------------------ hunk header regex

\* regexp class \d
IsDigit(c) == c \in {"0", "1", "2", "3", "4", "5", "6", "7", "8", "9"}
\* regexp class \s (RE2: [\t\n\f\r ]); the model's alphabet has no \f and \r.
IsSpace(c) == c \in {" ", TAB, NL}

DigitVal(c) ==
    CASE c = "0" -> 0 [] c = "1" -> 1 [] c = "2" -> 2 [] c = "3" -> 3
      [] c = "4" -> 4 [] c = "5" -> 5 [] c = "6" -> 6 [] c = "7" -> 7
      [] c = "8" -> 8 [] c = "9" -> 9

\* strconv.Atoi on a string of digits (the regexp group is \d+).
RECURSIVE AtoiAcc(_, _)
AtoiAcc(s, acc) ==
    IF Len(s) = 0 THEN acc ELSE AtoiAcc(Tail(s), acc * 10 + DigitVal(Head(s)))

Atoi(s) == AtoiAcc(s, 0)

\* The first position >= i of s that holds no digit (Len(s)+1 when none).
RECURSIVE SkipDigits(_, _)
SkipDigits(s, i) ==
    IF i <= Len(s) /\ IsDigit(s[i]) THEN SkipDigits(s, i + 1) ELSE i

\* The first position >= i of s that holds no whitespace.
RECURSIVE SkipSpaces(_, _)
SkipSpaces(s, i) ==
    IF i <= Len(s) /\ IsSpace(s[i]) THEN SkipSpaces(s, i + 1) ELSE i

LitAt(s, i, c) == i <= Len(s) /\ s[i] = c

NoMatch == -1

\* One side of the header, "-(\d+),(\d+)?" or "\+(\d+),(\d+)?", starting at i
\* with the sign: <<position after it, first and last position of (\d+)>>, or
\* <<0, 0, 0>> when it does not match. Each class is followed by a literal
\* outside the class, so the greedy match is the only one.
SideAt(s, i, sign) ==
    IF ~LitAt(s, i, sign) THEN <<0, 0, 0>>
    ELSE LET d == SkipDigits(s, i + 1) IN
         IF d = i + 1 \/ ~LitAt(s, d, ",") THEN <<0, 0, 0>>
         ELSE <<SkipDigits(s, d + 1), i + 1, d - 1>>

\* The regexp `@@\s+-(\d+),(\d+)?\s+\+(\d+),(\d+)?\s+@@` anchored at i:
\* the text of group 1, or NoMatch.
MatchAt(s, i) ==
    IF ~(LitAt(s, i, "@") /\ LitAt(s, i + 1, "@")) THEN NoMatch
    ELSE LET a == SkipSpaces(s, i + 2) IN
         IF a = i + 2 THEN NoMatch
         ELSE LET old == SideAt(s, a, "-") IN
              IF old[1] = 0 THEN NoMatch
              ELSE LET b == SkipSpaces(s, old[1]) IN
                   IF b = old[1] THEN NoMatch
                   ELSE LET new == SideAt(s, b, "+") IN
                        IF new[1] = 0 THEN NoMatch
                        ELSE LET c == SkipSpaces(s, new[1]) IN
                             IF c = new[1] THEN NoMatch
                             ELSE IF LitAt(s, c, "@") /\ LitAt(s, c + 1, "@")
                                  THEN Atoi(SubSeq(s, old[2], old[3]))
                                  ELSE NoMatch

\* re.FindStringSubmatch(line) followed by strconv.Atoi(matches[1]): the
\* leftmost match's original-side start line, or NoMatch.
RECURSIVE FindFrom(_, _)
FindFrom(s, i) ==
    IF i > Len(s) THEN NoMatch
    ELSE IF MatchAt(s, i) # NoMatch THEN MatchAt(s, i)
    ELSE FindFrom(s, i + 1)

FindStartLine(line) == FindFrom(line, 1)

\* ------------------------------------------------- utils.ApplyUnifiedDiff

\* The loop state of ApplyUnifiedDiff: originalLineNum (the number of original
\* lines consumed so far, which is the 0-based index of the next one) and the
\* result lines built so far.
Cursor(originalLineNum, result) == [num |-> originalLineNum, result |-> result]

\* "Skip diff header lines": any line that begins with --- or +++, wherever it
\* stands in the diff.
IsHeaderLine(line) ==
    \/ HasPrefix(line, <<"-", "-", "-">>)
    \/ HasPrefix(line, <<"+", "+", "+">>)

\* "Copy lines before this hunk".
RECURSIVE CopyBeforeHunk(_, _, _, _)
CopyBeforeHunk(lines, startLine, originalLineNum, result) ==
    IF originalLineNum < startLine - 1 /\ originalLineNum < Len(lines)
    THEN CopyBeforeHunk(lines, startLine, originalLineNum + 1,
                        Append(result, lines[originalLineNum + 1]))
    ELSE Cursor(originalLineNum, result)

\* "Handle hunk header": a header the regexp does not match copies nothing and
\* leaves the cursor where it is. (Atoi fails only on a number that overflows
\* int, which the bounded headers of the model never carry.)
HunkHeader(lines, line, originalLineNum, result) ==
    LET startLine == FindStartLine(line) IN
    IF startLine # NoMatch
    THEN CopyBeforeHunk(lines, startLine, originalLineNum, result)
    ELSE Cursor(originalLineNum, result)

\* A context line handled as an added line is: its text is taken from the diff.
ContextLineFromDiff(lines, line, originalLineNum, result) ==
    IF originalLineNum < Len(lines)
    THEN Cursor(originalLineNum + 1, Append(result, Tail(line)))
    ELSE Cursor(originalLineNum, result)

\* case ' ': "Context line - copy from original"
ContextLine(lines, line, originalLineNum, result) ==
    IF originalLineNum < Len(lines)
    THEN Cursor(originalLineNum + 1, Append(result, lines[originalLineNum + 1]))
    ELSE Cursor(originalLineNum, result)

\* case '-': "Removed line - skip it in original"
RemovedLine(lines, line, originalLineNum, result) ==
    IF originalLineNum < Len(lines)
    THEN Cursor(originalLineNum + 1, result)
    ELSE Cursor(originalLineNum, result)

\* case '+': "Added line - add to result"
AddedLine(lines, line, originalLineNum, result) ==
    Cursor(originalLineNum, Append(result, Tail(line)))

\* One iteration of the loop over diffLines.
DiffLine(lines, line, originalLineNum, result) ==
    IF IsHeaderLine(line) THEN Cursor(originalLineNum, result)
    ELSE IF HasPrefix(line, <<"@", "@">>)
         THEN HunkHeader(lines, line, originalLineNum, result)
    ELSE IF Len(line) = 0 THEN Cursor(originalLineNum, result)
    ELSE CASE line[1] = " " -> ContextLine(lines, line, originalLineNum, result)
           [] line[1] = "-" -> RemovedLine(lines, line, originalLineNum, result)
           [] line[1] = "+" -> AddedLine(lines, line, originalLineNum, result)
           [] OTHER -> Cursor(originalLineNum, result)

RECURSIVE DiffLoop(_, _, _, _, _)
DiffLoop(lines, diffLines, i, originalLineNum, result) ==
    IF i > Len(diffLines) THEN Cursor(originalLineNum, result)
    ELSE LET c == DiffLine(lines, diffLines[i], originalLineNum, result)
         IN DiffLoop(lines, diffLines, i + 1, c.num, c.result)

\* "Copy any remaining lines from original"
CopyRemaining(lines, originalLineNum, result) ==
    result \o SubSeq(lines, originalLineNum + 1, Len(lines))

\* ApplyUnifiedDiff(originalContent, diff): the content; the error it returns
\* is always nil.
ApplyUnifiedDiff(originalContent, diff) ==
    LET lines == Split(originalContent)
        diffLines == Split(diff)
        c == DiffLoop(lines, diffLines, 1, 0, <<>>)
    IN Join(CopyRemaining(lines, c.num, c.result))

\* ------------------------------------------------- generated unified diffs

\* The line texts documents and added lines are drawn from: plain text, PHP
\* statements that begin with the decrement and increment operators, and the
\* empty line.
LineSet == { <<"a">>, <<"-", "-", "x">>, <<"+", "+", "y">>, <<>> }

\* An edit script is a sequence of entries. "skip", "ctx" and "del" each
\* consume one original line (text is that line): skip leaves it outside every
\* hunk, ctx is a context line, del a removed line. "add" adds text.
Entry(op, text) == [op |-> op, text |-> text]

Consumes(e) == e.op \in {"skip", "ctx", "del"}
InNew(e) == e.op \in {"skip", "ctx", "add"}

\* The script of line operations lineOps over lines, with the additions adds
\* (each [pos, text]: text added after original line pos, 0 for the top).
AddsAt(adds, pos) ==
    LET idx == {i \in 1..Len(adds) : adds[i].pos = pos}
        F[i \in 0..Len(adds)] ==
            IF i = 0 THEN <<>>
            ELSE IF i \in idx THEN Append(F[i - 1], Entry("add", adds[i].text))
            ELSE F[i - 1]
    IN F[Len(adds)]

RECURSIVE ScriptFrom(_, _, _, _)
ScriptFrom(lines, lineOps, adds, i) ==
    IF i > Len(lines) THEN <<>>
    ELSE <<Entry(lineOps[i], lines[i])>> \o AddsAt(adds, i)
         \o ScriptFrom(lines, lineOps, adds, i + 1)

MakeScript(lines, lineOps, adds) ==
    AddsAt(adds, 0) \o ScriptFrom(lines, lineOps, adds, 1)

\* The scripts over lines: every choice of line operations, with at most
\* MaxAdds additions.
Scripts(lines) ==
    { MakeScript(lines, lineOps, adds) :
        lineOps \in [1..Len(lines) -> {"skip", "ctx", "del"}],
        adds \in SeqsUpTo([pos : 0..Len(lines), text : LineSet], MaxAdds) }

\* The document a script stands for on each side.
RECURSIVE OldSide(_)
OldSide(sc) ==
    IF Len(sc) = 0 THEN <<>>
    ELSE (IF Consumes(Head(sc)) THEN <<Head(sc).text>> ELSE <<>>) \o OldSide(Tail(sc))

\* The reference patch result: skipped and context lines are kept, removed
\* lines dropped, added lines inserted in place.
RECURSIVE NewSide(_)
NewSide(sc) ==
    IF Len(sc) = 0 THEN <<>>
    ELSE (IF InNew(Head(sc)) THEN <<Head(sc).text>> ELSE <<>>) \o NewSide(Tail(sc))

\* The text of a document of newline-terminated lines.
RECURSIVE Text(_)
Text(ls) == IF Len(ls) = 0 THEN <<>> ELSE Head(ls) \o <<NL>> \o Text(Tail(ls))

\* The reverse script: what was removed is added, what was added is removed.
Reverse(sc) ==
    [i \in 1..Len(sc) |->
        CASE sc[i].op = "del" -> Entry("add", sc[i].text)
          [] sc[i].op = "add" -> Entry("del", sc[i].text)
          [] OTHER -> sc[i]]

\* Decimal text of a natural number.
DigitChar(d) ==
    CASE d = 0 -> "0" [] d = 1 -> "1" [] d = 2 -> "2" [] d = 3 -> "3"
      [] d = 4 -> "4" [] d = 5 -> "5" [] d = 6 -> "6" [] d = 7 -> "7"
      [] d = 8 -> "8" [] d = 9 -> "9"

RECURSIVE Itoa(_)
Itoa(n) == IF n < 10 THEN <<DigitChar(n)>> ELSE Append(Itoa(n \div 10), DigitChar(n % 10))

\* The lines of the original, and of the result, among sc[from..to].
CountOld(sc, from, to) == Cardinality({i \in from..to : Consumes(sc[i])})
CountNew(sc, from, to) == Cardinality({i \in from..to : InNew(sc[i])})

\* The last entry of the hunk that begins at entry i: hunks are the maximal
\* runs of entries that are not "skip".
RECURSIVE HunkEnd(_, _)
HunkEnd(sc, i) ==
    IF i < Len(sc) /\ sc[i + 1].op # "skip" THEN HunkEnd(sc, i + 1) ELSE i

\* "@@ -start,count +start,count @@" of the hunk sc[i..j]. A side with no line
\* in the hunk carries the number of the line before it, as diff -U0 does.
HeaderText(sc, i, j) ==
    LET oldBefore == CountOld(sc, 1, i - 1)
        newBefore == CountNew(sc, 1, i - 1)
        oldCount == CountOld(sc, i, j)
        newCount == CountNew(sc, i, j)
        oldStart == IF oldCount = 0 THEN oldBefore ELSE oldBefore + 1
        newStart == IF newCount = 0 THEN newBefore ELSE newBefore + 1
    IN <<"@", "@", " ", "-">> \o Itoa(oldStart) \o <<",">> \o Itoa(oldCount)
       \o <<" ", "+">> \o Itoa(newStart) \o <<",">> \o Itoa(newCount)
       \o <<" ", "@", "@">>

BodyLine(e) ==
    CASE e.op = "ctx" -> <<" ">> \o e.text
      [] e.op = "del" -> <<"-">> \o e.text
      [] e.op = "add" -> <<"+">> \o e.text

RECURSIVE HunkLines(_, _)
HunkLines(sc, i) ==
    IF i > Len(sc) THEN <<>>
    ELSE IF sc[i].op = "skip" THEN HunkLines(sc, i + 1)
    ELSE LET j == HunkEnd(sc, i) IN
         <<HeaderText(sc, i, j)>> \o [k \in 1..(j - i + 1) |-> BodyLine(sc[i + k - 1])]
         \o HunkLines(sc, j + 1)

\* The unified diff text of a script, with the two file header lines.
DiffText(sc) ==
    Join(<< <<"-", "-", "-", " ", "a">>, <<"+", "+", "+", " ", "b">> >> \o HunkLines(sc, 1))

\* ------------------------------------------------ the diff specifications

\* Generated diffs: a document of at most MaxLines newline-terminated lines
\* and a script over it.
InitDiff ==
    /\ origLines \in UNION {[1..n -> LineSet] : n \in 0..MaxLines}
    /\ script \in Scripts(origLines)
    /\ original = Text(origLines)
    /\ diffStr = DiffText(script)
    /\ formatted = <<>>
    /\ back = <<>>
    /\ dpc = "input"
    /\ GatewayOff
    /\ CollectOff
    /\ SchedOff
    /\ DiagnoseOff
    /\ SessionOff
    /\ WatchedOff
    /\ CacheOff
    /\ RequestOff
    /\ LockOff
    /\ LoadOff

\* formatted, err := utils.ApplyUnifiedDiff(original, diffStr)
ApplyDiff ==
    /\ dpc = "input"
    /\ formatted' = ApplyUnifiedDiff(original, diffStr)
    /\ dpc' = "applied"
    /\ UNCHANGED <<origLines, script, original, diffStr, back>>
    /\ UNCHANGED <<gwVars, collVars, schedVars, diagVars, sessVars,
                    watchVars, cacheVars, reqVars, lockVars, loadVars>>

\* The round trip: the reverse diff, from the target document to the
\* original, applied to what the first application returned.
ApplyReverse ==
    /\ dpc = "applied"
    /\ back' = ApplyUnifiedDiff(formatted, DiffText(Reverse(script)))
    /\ dpc' = "back"
    /\ UNCHANGED <<origLines, script, original, diffStr, formatted>>
    /\ UNCHANGED <<gwVars, collVars, schedVars, diagVars, sessVars,
                    watchVars, cacheVars, reqVars, lockVars, loadVars>>

NextDiff == ApplyDiff \/ ApplyReverse

SpecDiff == InitDiff /\ [][NextDiff]_vars

\* No-op diffs: any content, and a diff of whitespace only.
ContentChars == {"a", " ", NL}
WsChars == {" ", TAB, NL}

InitNoop ==
    /\ origLines = <<>>
    /\ script = <<>>
    /\ original \in SeqsUpTo(ContentChars, MaxContentLen)
    /\ diffStr \in SeqsUpTo(WsChars, MaxWsLen)
    /\ formatted = <<>>
    /\ back = <<>>
    /\ dpc = "input"
    /\ GatewayOff
    /\ CollectOff
    /\ SchedOff
    /\ DiagnoseOff
    /\ SessionOff
    /\ WatchedOff
    /\ CacheOff
    /\ RequestOff
    /\ LockOff
    /\ LoadOff

NextNoop == ApplyDiff

SpecNoop == InitNoop /\ [][NextNoop]_vars

\* ------------------------------------------------------ diff engine claims

\* C8: for every well-formed single- or multi-hunk diff, ApplyUnifiedDiff
\* returns the reference patch result: lines outside the hunks and context
\* lines are copied, removed lines are dropped, added lines are emitted in
\* place, and the lines after the last hunk follow in order.
ApplyEqualsReference ==
    dpc \in {"applied", "back"} => formatted = Text(NewSide(script))

\* C9: a diff that is empty or holds only whitespace and newlines is no
\* change: ApplyUnifiedDiff returns the original content itself.
NoopDiffReturnsOriginal ==
    dpc = "applied" => formatted = original

\* A whitespace-only diff whose lines begin with a space (each is read as a
\* context line), applied to a document of several lines.
NoopDiffWitness ==
    /\ dpc = "applied"
    /\ Len(diffStr) >= 3
    /\ diffStr[1] = " "
    /\ Len(Split(original)) >= 2
    /\ formatted = original

\* C10: applying the diff from A to B and then the diff from B to A gives A
\* back, for every pair of valid diffs.
RoundTripRestoresOriginal ==
    dpc = "back" => back = original

\* ----------------------------------------- container.RunCommandInContainer

\* The exit codes a process ends with on its own: success, a failure, and
\* php-cs-fixer's "changes found".
ExitCodes == {0, 1, 8}

\* Errors. ExitError(code) is *exec.ExitError; exitErr.ExitCode() is -1 for a
\* process ended by a signal.
\* A []byte: nil, or a slice of len bytes. Bytes() of a bytes.Buffer that has
\* never grown is nil.
NilBytes == [nil |-> TRUE, len |-> 0]
Bytes(n) == [nil |-> FALSE, len |-> n]

NoErr == [kind |-> "none"]
EmptyChan == [kind |-> "empty"]
NoResult == [kind |-> "none"]

NilErr == [kind |-> "nil"]
ExitError(code) == [kind |-> "exit", code |-> code]
OtherErr == [kind |-> "other"]
StartFailed(cause) == [kind |-> "failed to start command", wraps |-> cause]
Cancelled(cause) == [kind |-> "command cancelled", wraps |-> cause]

CommandResult(out, err, exitCode, e) ==
    [Stdout |-> out, Stderr |-> err, ExitCode |-> exitCode, Err |-> e]

\* The result of the start-failure return.
StartFailure(cause) == CommandResult(NilBytes, NilBytes, -1, StartFailed(cause))

\* A completion that reports every failed Wait as a plain error.
CompletionAsError(out, err, e) ==
    IF e.kind = "nil" THEN CommandResult(out, err, 0, NilErr)
    ELSE CommandResult(out, err, -1, e)

\* The result of the `case err := <-done` branch.
Completion(out, err, e) ==
    IF e.kind = "nil" THEN CommandResult(out, err, 0, NilErr)
    ELSE IF e.kind = "exit" THEN CommandResult(out, err, e.code, NilErr)
    ELSE CommandResult(out, err, -1, e)

\* The result of the `case <-ctx.Done()` branch.
Cancellation(out, err, cause) == CommandResult(out, err, -1, Cancelled(cause))

InitGateway ==
    /\ gpc = "call"
    /\ ctxErr \in {"nil", "canceled", "deadlineExceeded"}
    /\ dockerOnPath \in BOOLEAN
    /\ proc = "none"
    /\ waitErr = NoErr
    /\ stdout = NilBytes
    /\ stderr = NilBytes
    /\ done = EmptyChan
    /\ ret = NoResult
    /\ cancelledFirst = (ctxErr # "nil")
    /\ DiffOff
    /\ CollectOff
    /\ SchedOff
    /\ DiagnoseOff
    /\ SessionOff
    /\ WatchedOff
    /\ CacheOff
    /\ RequestOff
    /\ LockOff
    /\ LoadOff

\* The caller cancels ctx, or its deadline expires.
CtxDone ==
    /\ gpc \in {"call", "select"}
    /\ ctxErr = "nil"
    /\ \E e \in {"canceled", "deadlineExceeded"} : ctxErr' = e
    /\ cancelledFirst' = (proc # "exited")
    /\ UNCHANGED <<gpc, dockerOnPath, proc, waitErr, stdout, stderr, done, ret>>
    /\ UNCHANGED <<diffVars, collVars, schedVars, diagVars, sessVars,
                    watchVars, cacheVars, reqVars, lockVars, loadVars>>

\* err := cmd.Start(), which fails when ctx is already done or the docker
\* client cannot be started; `if err != nil { return &CommandResult{...} }`.
\* On success the process runs and `go func() { done <- cmd.Wait() }()` waits.
Start ==
    /\ gpc = "call"
    /\ IF ctxErr # "nil"
       THEN /\ ret' = StartFailure(ctxErr)
            /\ gpc' = "returned"
            /\ UNCHANGED proc
       ELSE IF ~dockerOnPath
       THEN /\ ret' = StartFailure("exec")
            /\ gpc' = "returned"
            /\ UNCHANGED proc
       ELSE /\ proc' = "running"
            /\ gpc' = "select"
            /\ UNCHANGED ret
    /\ UNCHANGED <<ctxErr, dockerOnPath, waitErr, stdout, stderr, done, cancelledFirst>>
    /\ UNCHANGED <<diffVars, collVars, schedVars, diagVars, sessVars,
                    watchVars, cacheVars, reqVars, lockVars, loadVars>>

\* The goroutine os/exec starts for a stream copies the pipe into the buffer
\* with bytes.Buffer.ReadFrom, which grows the buffer before its first read:
\* from then on Bytes() is a non-nil slice, empty until the process writes.
CopyBegins ==
    /\ proc # "none"
    /\ \/ stdout.nil /\ stdout' = Bytes(0) /\ UNCHANGED stderr
       \/ stderr.nil /\ stderr' = Bytes(0) /\ UNCHANGED stdout
    /\ UNCHANGED <<gpc, ctxErr, dockerOnPath, proc, waitErr, done, ret, cancelledFirst>>
    /\ UNCHANGED <<diffVars, collVars, schedVars, diagVars, sessVars,
                    watchVars, cacheVars, reqVars, lockVars, loadVars>>

\* The process writes a byte to one of its streams.
ProcWrites ==
    /\ proc = "running"
    /\ \/ /\ ~stdout.nil /\ stdout.len < MaxOut
          /\ stdout' = Bytes(stdout.len + 1) /\ UNCHANGED stderr
       \/ /\ ~stderr.nil /\ stderr.len < MaxOut
          /\ stderr' = Bytes(stderr.len + 1) /\ UNCHANGED stdout
    /\ UNCHANGED <<gpc, ctxErr, dockerOnPath, proc, waitErr, done, ret, cancelledFirst>>
    /\ UNCHANGED <<diffVars, collVars, schedVars, diagVars, sessVars,
                    watchVars, cacheVars, reqVars, lockVars, loadVars>>

\* The process exits on its own. cmd.Wait() will return nil for exit code 0,
\* an *exec.ExitError for another code, or another error (a failed copy).
ProcExits ==
    /\ proc = "running"
    /\ proc' = "exited"
    /\ \/ \E c \in ExitCodes : waitErr' = IF c = 0 THEN NilErr ELSE ExitError(c)
       \/ waitErr' = OtherErr
    /\ UNCHANGED <<gpc, ctxErr, dockerOnPath, stdout, stderr, done, ret, cancelledFirst>>
    /\ UNCHANGED <<diffVars, collVars, schedVars, diagVars, sessVars,
                    watchVars, cacheVars, reqVars, lockVars, loadVars>>

\* exec.CommandContext: once ctx is done os/exec kills the process itself.
CtxKills ==
    /\ proc = "running"
    /\ ctxErr # "nil"
    /\ proc' = "exited"
    /\ waitErr' = ExitError(-1)
    /\ UNCHANGED <<gpc, ctxErr, dockerOnPath, stdout, stderr, done, ret, cancelledFirst>>
    /\ UNCHANGED <<diffVars, collVars, schedVars, diagVars, sessVars,
                    watchVars, cacheVars, reqVars, lockVars, loadVars>>

\* done <- cmd.Wait(): Wait returns after the process has exited and the
\* copying goroutines have finished.
WaitReturns ==
    /\ proc = "exited"
    /\ ~stdout.nil
    /\ ~stderr.nil
    /\ done = EmptyChan
    /\ done' = waitErr
    /\ UNCHANGED <<gpc, ctxErr, dockerOnPath, proc, waitErr, stdout, stderr, ret,
                   cancelledFirst>>
    /\ UNCHANGED <<diffVars, collVars, schedVars, diagVars, sessVars,
                    watchVars, cacheVars, reqVars, lockVars, loadVars>>

\* select, `case err := <-done`. When ctx is done as well, select takes either
\* ready case.
SelectDone ==
    /\ gpc = "select"
    /\ done # EmptyChan
    /\ ret' = Completion(stdout, stderr, done)
    /\ gpc' = "returned"
    /\ UNCHANGED <<ctxErr, dockerOnPath, proc, waitErr, stdout, stderr, done,
                   cancelledFirst>>
    /\ UNCHANGED <<diffVars, collVars, schedVars, diagVars, sessVars,
                    watchVars, cacheVars, reqVars, lockVars, loadVars>>

\* select, `case <-ctx.Done()`: cmd.Process.Kill(), then `<-done`.
SelectCtxDone ==
    /\ gpc = "select"
    /\ ctxErr # "nil"
    /\ gpc' = "waitDone"
    /\ IF proc = "running"
       THEN proc' = "exited" /\ waitErr' = ExitError(-1)
       ELSE UNCHANGED <<proc, waitErr>>
    /\ UNCHANGED <<ctxErr, dockerOnPath, stdout, stderr, done, ret, cancelledFirst>>
    /\ UNCHANGED <<diffVars, collVars, schedVars, diagVars, sessVars,
                    watchVars, cacheVars, reqVars, lockVars, loadVars>>

\* `<-done` after the kill, and the cancellation return.
CancelReturns ==
    /\ gpc = "waitDone"
    /\ done # EmptyChan
    /\ ret' = Cancellation(stdout, stderr, ctxErr)
    /\ gpc' = "returned"
    /\ UNCHANGED <<ctxErr, dockerOnPath, proc, waitErr, stdout, stderr, done,
                   cancelledFirst>>
    /\ UNCHANGED <<diffVars, collVars, schedVars, diagVars, sessVars,
                    watchVars, cacheVars, reqVars, lockVars, loadVars>>

NextGateway ==
    \/ CtxDone
    \/ Start
    \/ CopyBegins
    \/ ProcWrites
    \/ ProcExits
    \/ CtxKills
    \/ WaitReturns
    \/ SelectDone
    \/ SelectCtxDone
    \/ CancelReturns

SpecGateway == InitGateway /\ [][NextGateway]_vars

\* ---------------------------------------------------- process gateway claims

IsCancellation(e) ==
    /\ e.kind \in {"command cancelled", "failed to start command"}
    /\ e.wraps \in {"canceled", "deadlineExceeded"}

\* C6: when ctx is cancelled or times out before the process has exited, also
\* when it is already cancelled at the call, the run returns a result whose
\* buffers are non-nil and whose error indicates the cancellation, never a
\* normal completion.
CancelledRunReportsCancellation ==
    (gpc = "returned" /\ cancelledFirst) =>
        /\ ~ret.Stdout.nil
        /\ ~ret.Stderr.nil
        /\ IsCancellation(ret.Err)

\* C7: every return path of RunCommandInContainer yields a result whose
\* Stdout and Stderr are both non-nil.
BuffersAlwaysInitialized ==
    gpc = "returned" => (~ret.Stdout.nil /\ ~ret.Stderr.nil)

\* ------------------------------------------------ Server.collectDiagnostics

\* File paths, as segments: "/" joins them and leads the path.
Paths ==
    { <<"app", "src", "a.php">>,
      <<"app", "vendor", "lib", "b.php">>,
      <<"app", "var", "cache", "c.php">>,
      <<"app", "var", "d.php">>,
      <<"vendor">> }

\* strings.Contains(filePath, "/" + dir[1] + "/" + ... + "/"): the directory
\* segments stand in the path one after the other, before a further segment.
ContainsDir(path, dir) ==
    \E i \in 1..Len(path) :
        /\ i + Len(dir) <= Len(path)
        /\ SubSeq(path, i, i + Len(dir) - 1) = dir

\* ignoredDirs := []string{"/vendor/", "/var/cache/"}
IgnoredDirs == { <<"vendor">>, <<"var", "cache">> }

\* No directory is ignored.
NothingIgnored(path) == FALSE

IsIgnored(path) == \E dir \in IgnoredDirs : ContainsDir(path, dir)

\* loadDiagnosticsProviders: the providers that are enabled and that
\* NewDiagnosticsProvider creates (the container and the binary validate).
LoadedProviders(config) == {p \in Providers : config[p] = "ok"}

\* The providers whose creation fails: each sends one error message.
FailedToLoad(config) == {p \in Providers : config[p] = "invalid"}

InitMessage(p) == [type |-> "error", about |-> "initialize", provider |-> p]
AnalyzeMessage(p) == [type |-> "error", about |-> "analyze", provider |-> p]

\* The sequences that hold each element of the set S once.
Orders(S) ==
    {sq \in [1..Cardinality(S) -> S] : \A i, j \in 1..Cardinality(S) : sq[i] = sq[j] => i = j}

\* The diagnostics provider p returns when Analyze finds n.
ProviderDiagnostics(p, n) == [i \in 1..n |-> <<p, i>>]

\* An append that replaces what was collected so far.
AppendOverwrites(slice, providerDiagnostics) ==
    IF Len(providerDiagnostics) = 0 THEN NilSlice ELSE Slice(providerDiagnostics)

\* diagnostics = append(diagnostics, providerDiagnostics...): appending nothing
\* to the nil slice leaves it nil.
AppendDiagnostics(slice, providerDiagnostics) ==
    IF Len(providerDiagnostics) = 0 THEN slice
    ELSE Slice(slice.elems \o providerDiagnostics)

InitCollect ==
    /\ cpc = "call"
    /\ filePath \in Paths
    /\ providerConfig \in [Providers -> {"disabled", "invalid", "ok"}]
    /\ goroutine = [p \in Providers |-> "none"]
    /\ analyzed = [p \in Providers |-> 0]
    /\ diagnostics = NilSlice
    /\ messages = <<>>
    /\ wg = 0
    /\ collected = NilSlice
    /\ mu = "free"
    /\ snapshot = [p \in Providers |-> NilSlice]
    /\ DiffOff
    /\ GatewayOff
    /\ SchedOff
    /\ DiagnoseOff
    /\ SessionOff
    /\ WatchedOff
    /\ CacheOff
    /\ RequestOff
    /\ LockOff
    /\ LoadOff

\* collectDiagnostics up to wg.Wait(): the ignored directories, then
\* loadDiagnosticsProviders (map iteration: the messages of the providers that
\* fail to load come in any order), then one goroutine per provider.
CollectCall ==
    /\ cpc = "call"
    /\ IF IsIgnored(filePath)
       THEN /\ collected' = diagnostics
            /\ cpc' = "returned"
            /\ UNCHANGED <<goroutine, messages, wg>>
       ELSE /\ \E order \in Orders(FailedToLoad(providerConfig)) :
                 messages' = messages \o [i \in 1..Len(order) |-> InitMessage(order[i])]
            /\ IF LoadedProviders(providerConfig) = {}
               THEN /\ collected' = diagnostics
                    /\ cpc' = "returned"
                    /\ UNCHANGED <<goroutine, wg>>
               ELSE /\ wg' = Cardinality(LoadedProviders(providerConfig))
                    /\ goroutine' = [p \in Providers |->
                          IF p \in LoadedProviders(providerConfig)
                          THEN "analyzing" ELSE "none"]
                    /\ cpc' = "running"
                    /\ UNCHANGED collected
    /\ UNCHANGED <<filePath, providerConfig, analyzed, diagnostics, mu, snapshot>>
    /\ UNCHANGED <<diffVars, gwVars, schedVars, diagVars, sessVars,
                    watchVars, cacheVars, reqVars, lockVars, loadVars>>

\* providerDiagnostics, err := p.Analyze(filePath) returns an error:
\* showWindowMessage, return (and the deferred wg.Done()).
AnalyzeFails(p) ==
    /\ goroutine[p] = "analyzing"
    /\ messages' = Append(messages, AnalyzeMessage(p))
    /\ goroutine' = [goroutine EXCEPT ![p] = "failed"]
    /\ wg' = wg - 1
    /\ UNCHANGED <<cpc, filePath, providerConfig, analyzed, diagnostics, collected,
                   mu, snapshot>>
    /\ UNCHANGED <<diffVars, gwVars, schedVars, diagVars, sessVars,
                    watchVars, cacheVars, reqVars, lockVars, loadVars>>

\* p.Analyze(filePath) returns n diagnostics and no error.
AnalyzeSucceeds(p, n) ==
    /\ goroutine[p] = "analyzing"
    /\ analyzed' = [analyzed EXCEPT ![p] = n]
    /\ goroutine' = [goroutine EXCEPT ![p] = "appending"]
    /\ UNCHANGED <<cpc, filePath, providerConfig, diagnostics, messages, wg, collected,
                   mu, snapshot>>
    /\ UNCHANGED <<diffVars, gwVars, schedVars, diagVars, sessVars,
                    watchVars, cacheVars, reqVars, lockVars, loadVars>>

\* A lock that any goroutine can take, whoever holds it.
LockNeverHeld(holder) == TRUE

\* sync.Mutex: Lock() returns only while no goroutine holds the mutex.
LockFree(holder) == holder = "free"

\* mu.Lock() returns in the goroutine of provider p, and the append that
\* follows reads the shared slice.
MuLock(p) ==
    /\ goroutine[p] = "appending"
    /\ LockFree(mu)
    /\ mu' = p
    /\ snapshot' = [snapshot EXCEPT ![p] = diagnostics]
    /\ goroutine' = [goroutine EXCEPT ![p] = "locked"]
    /\ UNCHANGED <<cpc, filePath, providerConfig, analyzed, diagnostics, messages, wg,
                   collected>>
    /\ UNCHANGED <<diffVars, gwVars, schedVars, diagVars, sessVars,
                    watchVars, cacheVars, reqVars, lockVars, loadVars>>

\* diagnostics = append(diagnostics, providerDiagnostics...) stores the
\* slice it built from what it read; mu.Unlock(), and the deferred wg.Done().
AppendUnderLock(p) ==
    /\ goroutine[p] = "locked"
    /\ diagnostics' = AppendDiagnostics(snapshot[p], ProviderDiagnostics(p, analyzed[p]))
    /\ snapshot' = [snapshot EXCEPT ![p] = NilSlice]
    /\ mu' = "free"
    /\ goroutine' = [goroutine EXCEPT ![p] = "done"]
    /\ wg' = wg - 1
    /\ UNCHANGED <<cpc, filePath, providerConfig, analyzed, messages, collected>>
    /\ UNCHANGED <<diffVars, gwVars, schedVars, diagVars, sessVars,
                    watchVars, cacheVars, reqVars, lockVars, loadVars>>

\* A wait that returns whatever the counter holds.
WaitReturnsEarly(counter) == TRUE

\* wg.Wait() blocks until the counter is zero.
WaitDone(counter) == counter = 0

\* wg.Wait() returns; return diagnostics.
CollectReturn ==
    /\ cpc = "running"
    /\ WaitDone(wg)
    /\ collected' = diagnostics
    /\ cpc' = "returned"
    /\ UNCHANGED <<filePath, providerConfig, goroutine, analyzed, diagnostics, messages,
                   wg, mu, snapshot>>
    /\ UNCHANGED <<diffVars, gwVars, schedVars, diagVars, sessVars,
                    watchVars, cacheVars, reqVars, lockVars, loadVars>>

NextCollect ==
    \/ CollectCall
    \/ \E p \in Providers : AnalyzeFails(p)
    \/ \E p \in Providers, n \in 0..MaxDiags : AnalyzeSucceeds(p, n)
    \/ \E p \in Providers : MuLock(p)
    \/ \E p \in Providers : AppendUnderLock(p)
    \/ CollectReturn

SpecCollect == InitCollect /\ [][NextCollect]_vars

\* The Go scheduler runs every goroutine that can run: collectDiagnostics
\* itself, and each provider goroutine once its Analyze has returned; a
\* goroutine that waits for mu gets it (sync.Mutex hands the lock to a waiter
\* that has been starved). Analyze waits for an external process and may
\* never return.
SpecCollectLive ==
    /\ InitCollect
    /\ [][NextCollect]_vars
    /\ WF_vars(CollectCall)
    /\ \A p \in Providers : SF_vars(MuLock(p))
    /\ \A p \in Providers : WF_vars(AppendUnderLock(p))
    /\ WF_vars(CollectReturn)

\* --------------------------------------------------------- aggregator claims

\* Provider p's diagnostics in the returned list, in order.
CollectedFrom(p) == LET Mine(d) == d[1] = p IN SelectSeq(collected.elems, Mine)

\* The messages about a failed Analyze of provider p.
AnalyzeMessages(p) == LET Mine(m) == m = AnalyzeMessage(p) IN SelectSeq(messages, Mine)

Ran(p) == providerConfig[p] = "ok"
Failed(p) == goroutine[p] = "failed"

\* C5: whatever subset of the providers fails, the aggregate holds all the
\* diagnostics of each provider that succeeded, none of a provider that
\* failed, one message is sent per failed provider, and the aggregate is
\* returned after every provider has finished.
PartialFailureIsolation ==
    (cpc = "returned" /\ ~IsIgnored(filePath)) =>
        /\ \A p \in Providers : Ran(p) => goroutine[p] \in {"done", "failed"}
        /\ \A p \in Providers :
              IF Failed(p)
              THEN /\ CollectedFrom(p) = <<>>
                   /\ Len(AnalyzeMessages(p)) = 1
              ELSE /\ CollectedFrom(p) = ProviderDiagnostics(p, analyzed[p])
                   /\ AnalyzeMessages(p) = <<>>
        /\ \A p \in Providers : ~Ran(p) => CollectedFrom(p) = <<>>

\* Three providers ran, exactly one failed, and the other two returned
\* diagnostics.
PartialFailureWitness ==
    /\ cpc = "returned"
    /\ \A p \in Providers : Ran(p)
    /\ Cardinality({p \in Providers : Failed(p)}) = 1
    /\ \A p \in Providers : ~Failed(p) => analyzed[p] >= 1
    /\ Len(collected.elems) >= 2

\* C26: for a file path under an ignored directory (/vendor/, /var/cache/)
\* collectDiagnostics returns an empty result, starts no provider and loads
\* none (no container or binary is validated, so no message is sent).
IgnoredPathSkipsAnalysis ==
    (ContainsDir(filePath, <<"vendor">>) \/ ContainsDir(filePath, <<"var", "cache">>)) =>
        /\ \A p \in Providers : goroutine[p] = "none"
        /\ wg = 0
        /\ messages = <<>>
        /\ collected.elems = <<>>

\* collectDiagnostics returned for a file under /var/cache/ while one
\* provider was configured and valid and another would have failed to load.
IgnoredPathSkipsAnalysisWitness ==
    /\ cpc = "returned"
    /\ ContainsDir(filePath, <<"var", "cache">>)
    /\ \E p \in Providers : providerConfig[p] = "ok"
    /\ \E p \in Providers : providerConfig[p] = "invalid"

\* C27: collectDiagnostics returns only after every provider it started has
\* returned from Analyze, and once all of them have returned it does return.
FanInCompleteness ==
    /\ [](cpc = "returned" => \A p \in Providers : goroutine[p] # "analyzing")
    /\ (cpc = "running" /\ \A p \in Providers : goroutine[p] # "analyzing")
           ~> (cpc = "returned")

\* collectDiagnostics returned after three providers ran, none failed and
\* each returned diagnostics.
FanInCompletenessWitness ==
    /\ cpc = "returned"
    /\ \A p \in Providers : goroutine[p] = "done" /\ analyzed[p] >= 1
    /\ Len(collected.elems) >= 3

\* The diagnostics of the providers ps whose goroutine has appended.
RECURSIVE Appended(_)
Appended(ps) ==
    IF ps = {} THEN 0
    ELSE LET p == CHOOSE q \in ps : TRUE
         IN (IF goroutine[p] = "done" THEN analyzed[p] ELSE 0) + Appended(ps \ {p})

\* The slice holds the diagnostics of provider p once, as one block.
OneBlock(slice, p) ==
    /\ Len(CollectedFrom(p)) = analyzed[p]
    /\ \E k \in 0..Len(slice.elems) :
          /\ k + analyzed[p] <= Len(slice.elems)
          /\ SubSeq(slice.elems, k + 1, k + analyzed[p])
                = ProviderDiagnostics(p, analyzed[p])

\* C35: however the provider goroutines interleave, the shared list holds,
\* for each provider that has appended, its diagnostics exactly once, as one
\* contiguous block in the provider's own order, and nothing else: no
\* append lands inside the block of another or overwrites it. What
\* collectDiagnostics returns is that list.
BlocksNeverInterleave ==
    /\ \A p \in Providers :
          goroutine[p] = "done" =>
              \E k \in 0..Len(diagnostics.elems) :
                  /\ k + analyzed[p] <= Len(diagnostics.elems)
                  /\ SubSeq(diagnostics.elems, k + 1, k + analyzed[p])
                        = ProviderDiagnostics(p, analyzed[p])
    /\ Len(diagnostics.elems) = Appended(Providers)
    /\ cpc = "returned" => collected = diagnostics

\* Three providers each returned as many diagnostics as a provider can, and
\* the list returned holds the block of phplint first, that of phpstan next
\* and that of phpcsfixer last.
BlocksNeverInterleaveWitness ==
    /\ cpc = "returned"
    /\ \A p \in Providers : goroutine[p] = "done" /\ analyzed[p] = MaxDiags
    /\ OneBlock(collected, "phpstan")
    /\ collected.elems[1][1] = "phplint"
    /\ collected.elems[Len(collected.elems)][1] = "phpcsfixer"

\* ----------------------------------------- Server.loadDiagnosticsProviders

\* s.serverConfig.DiagnosticsProviders as a handler sees it: empty until
\* handleInitialize has stored the configuration it loaded.
ServerConfig(stage, config) ==
    IF stage = "initialized" THEN config ELSE [p \in Providers |-> "disabled"]

\* The providers NewDiagnosticsProvider is called for: the enabled ones.
Enabled(config) == {p \in Providers : config[p] # "disabled"}

\* validateProviderConfig returns nil: the container runs and holds the binary.
ValidateProviderConfig(config, p) == config[p] = "ok"

\* handleInitialize: LoadConfig, s.serverConfig = serverConfig, the reply.
\* No provider is loaded.
InitializeProviders ==
    /\ loadStage = "new"
    /\ loadStage' = "initialized"
    /\ UNCHANGED <<loadConfig, analyses, probes, constructions>>
    /\ UNCHANGED <<diffVars, gwVars, collVars, schedVars, diagVars, sessVars,
                   watchVars, cacheVars, reqVars, lockVars>>

\* collectDiagnostics(ctx, path) up to the goroutines: the ignored
\* directories, then loadDiagnosticsProviders, which calls
\* NewDiagnosticsProvider, and so validateProviderConfig, for every enabled
\* provider of the configuration.
LoadDiagnosticsProviders(path) ==
    /\ loadStage \in {"new", "initialized"}
    /\ analyses < MaxAnalyses
    /\ analyses' = analyses + 1
    /\ LET config == ServerConfig(loadStage, loadConfig) IN
       IF IsIgnored(path)
       THEN UNCHANGED <<probes, constructions>>
       ELSE /\ probes' = [p \in Providers |->
                  IF p \in Enabled(config) THEN probes[p] + 1 ELSE probes[p]]
            /\ constructions' = [p \in Providers |->
                  IF p \in Enabled(config) /\ ValidateProviderConfig(config, p)
                  THEN constructions[p] + 1 ELSE constructions[p]]
    /\ UNCHANGED <<loadStage, loadConfig>>
    /\ UNCHANGED <<diffVars, gwVars, collVars, schedVars, diagVars, sessVars,
                   watchVars, cacheVars, reqVars, lockVars>>

InitLoad ==
    /\ loadStage = "new"
    /\ loadConfig \in [Providers -> {"disabled", "invalid", "ok"}]
    /\ analyses = 0
    /\ probes = [p \in Providers |-> 0]
    /\ constructions = [p \in Providers |-> 0]
    /\ DiffOff
    /\ GatewayOff
    /\ CollectOff
    /\ SchedOff
    /\ DiagnoseOff
    /\ SessionOff
    /\ WatchedOff
    /\ CacheOff
    /\ RequestOff
    /\ LockOff

NextLoad ==
    \/ InitializeProviders
    \/ \E path \in Paths : LoadDiagnosticsProviders(path)

SpecLoad == InitLoad /\ [][NextLoad]_vars

\* C36: the container and binary probe runs once per provider, during
\* initialization: over handleInitialize and every analysis request that
\* follows it, no provider is probed a second time and none is constructed
\* a second time.
ProbedOncePerProvider ==
    \A p \in Providers : probes[p] <= 1 /\ constructions[p] <= 1

\* --------------------------------------------------------- debounced scheduler

\* A scheduled operation: its key, whether SchedulePriority issued it, the
\* generation g captured when it was scheduled, and where it stands:
\*   "pending"    its timer is armed
\*   "cancelled"  its timer was stopped before it fired
\*   "running"    work is executing, outside the lock
\*   "matched"    work completed and g equalled the counter: to be published
\*   "dropped"    work completed and g no longer equalled the counter
\*   "published"  the result was sent to the client
\* seen is the value of the counter that the completed work compared g to;
\* replaced is the operation whose pending timer this one cancelled (0: none);
\* burst is the first operation of the run of Schedule calls, each issued
\* while the previous timer was pending, that this one belongs to.
Operation(key, priority, g, status, replaced, burst) ==
    [key |-> key, priority |-> priority, g |-> g, status |-> status, seen |-> 0,
     replaced |-> replaced, burst |-> burst]

\* Stopping a pending timer leaves it armed.
TimerKeepsRunning(op) == op

\* timer.Stop() on the pending timer of a key.
CancelPending(op) == [op EXCEPT !.status = "cancelled"]

\* Cancels the pending timers of every kind of the key's document.
CancelTimersOfDocument(key) ==
    [id \in 1..Len(ops) |->
        IF ops[id].key[1] = key[1] /\ ops[id].status = "pending"
        THEN CancelPending(ops[id]) ELSE ops[id]]

\* The operations after the pending timer of key, if any, was cancelled.
CancelTimerOf(key) ==
    IF timers[key] = 0 THEN ops
    ELSE [ops EXCEPT ![timers[key]] = CancelPending(@)]

\* The counter of the key is left as it was.
GenerationKept(g) == g

\* gen[key]++: the next value of a key's generation counter.
NextGeneration(g) == g + 1

\* A timer that fired stays in the map.
EntryKept(entry, id) == entry

\* delete(timers, key) in the timer callback: the entry goes, unless a later
\* Schedule already put its own timer there.
RemoveEntry(entry, id) == IF entry = id THEN 0 ELSE entry

\* Every result is eligible, whatever the counter says.
AlwaysEligible(g, current) == TRUE

\* The generation fence: compare g to the current counter value.
Eligible(g, current) == g = current

\* Arms a timer and nothing else: no pending timer is cancelled and the
\* generation counter stays as it is.
ScheduleWithoutSuperseding(key) ==
    /\ Len(ops) < MaxOps
    /\ LET id == Len(ops) + 1
           burst == IF timers[key] = 0 THEN id ELSE ops[timers[key]].burst
       IN /\ ops' = Append(ops, Operation(key, FALSE, generation[key], "pending",
                                          timers[key], burst))
          /\ timers' = [timers EXCEPT ![key] = id]
    /\ UNCHANGED <<generation, published>>
    /\ UNCHANGED <<diffVars, gwVars, collVars, diagVars, sessVars,
                    watchVars, cacheVars, reqVars, lockVars, loadVars>>

\* Schedule(uri, kind, delay, work): cancel any pending timer of the key,
\* increment the key's generation counter, capture the new generation, arm a
\* new timer. One critical section.
Schedule(key) ==
    /\ Len(ops) < MaxOps
    /\ LET id == Len(ops) + 1
           g == NextGeneration(generation[key])
           burst == IF timers[key] = 0 THEN id ELSE ops[timers[key]].burst
       IN /\ generation' = [generation EXCEPT ![key] = g]
          /\ ops' = Append(CancelTimerOf(key),
                           Operation(key, FALSE, g, "pending", timers[key], burst))
          /\ timers' = [timers EXCEPT ![key] = id]
    /\ UNCHANGED published
    /\ UNCHANGED <<diffVars, gwVars, collVars, diagVars, sessVars,
                    watchVars, cacheVars, reqVars, lockVars, loadVars>>

\* Work starts at once, but the pending timer of the key stays armed.
SchedulePriorityKeepsTimer(key) ==
    /\ Len(ops) < MaxOps
    /\ LET id == Len(ops) + 1
           g == generation[key] + 1
       IN /\ generation' = [generation EXCEPT ![key] = g]
          /\ ops' = Append(ops, Operation(key, TRUE, g, "running", timers[key], id))
    /\ UNCHANGED <<timers, published>>
    /\ UNCHANGED <<diffVars, gwVars, collVars, diagVars, sessVars,
                    watchVars, cacheVars, reqVars, lockVars, loadVars>>

\* SchedulePriority(uri, kind, work): the same, but work starts at once and
\* no timer is armed.
SchedulePriority(key) ==
    /\ Len(ops) < MaxOps
    /\ LET id == Len(ops) + 1
           g == NextGeneration(generation[key])
       IN /\ generation' = [generation EXCEPT ![key] = g]
          /\ ops' = Append(CancelTimerOf(key),
                           Operation(key, TRUE, g, "running", timers[key], id))
          /\ timers' = [timers EXCEPT ![key] = 0]
    /\ UNCHANGED published
    /\ UNCHANGED <<diffVars, gwVars, collVars, diagVars, sessVars,
                    watchVars, cacheVars, reqVars, lockVars, loadVars>>

\* The timer of operation id fires: remove the pending-timer entry, start work.
TimerFires(id) ==
    /\ id \in 1..Len(ops)
    /\ ops[id].status = "pending"
    /\ timers' = [timers EXCEPT ![ops[id].key] = RemoveEntry(@, id)]
    /\ ops' = [ops EXCEPT ![id].status = "running"]
    /\ UNCHANGED <<generation, published>>
    /\ UNCHANGED <<diffVars, gwVars, collVars, diagVars, sessVars,
                    watchVars, cacheVars, reqVars, lockVars, loadVars>>

\* work returns: compare g to the current counter value.
WorkCompletes(id) ==
    /\ id \in 1..Len(ops)
    /\ ops[id].status = "running"
    /\ LET current == generation[ops[id].key]
       IN ops' = [ops EXCEPT ![id].seen = current,
                             ![id].status = IF Eligible(ops[id].g, current)
                                            THEN "matched" ELSE "dropped"]
    /\ UNCHANGED <<generation, timers, published>>
    /\ UNCHANGED <<diffVars, gwVars, collVars, diagVars, sessVars,
                    watchVars, cacheVars, reqVars, lockVars, loadVars>>

\* The result of a matching operation is sent to the client, outside the
\* scheduler's lock.
Publish(id) ==
    /\ id \in 1..Len(ops)
    /\ ops[id].status = "matched"
    /\ published' = Append(published, id)
    /\ ops' = [ops EXCEPT ![id].status = "published"]
    /\ UNCHANGED <<generation, timers>>
    /\ UNCHANGED <<diffVars, gwVars, collVars, diagVars, sessVars,
                    watchVars, cacheVars, reqVars, lockVars, loadVars>>

InitSched ==
    /\ SchedOff
    /\ DiffOff
    /\ GatewayOff
    /\ CollectOff
    /\ DiagnoseOff
    /\ SessionOff
    /\ WatchedOff
    /\ CacheOff
    /\ RequestOff
    /\ LockOff
    /\ LoadOff

NextSched ==
    \/ \E key \in Keys : Schedule(key)
    \/ \E key \in Keys : SchedulePriority(key)
    \/ \E id \in 1..MaxOps : TimerFires(id)
    \/ \E id \in 1..MaxOps : WorkCompletes(id)
    \/ \E id \in 1..MaxOps : Publish(id)

SpecSched == InitSched /\ [][NextSched]_vars

\* ---------------------------------------------------------- scheduler claims

Ids == 1..Len(ops)
WasPublished(id) == \E n \in 1..Len(published) : published[n] = id
Executed(id) == ops[id].status \in {"running", "matched", "dropped", "published"}
Completed(id) == ops[id].status \in {"matched", "dropped", "published"}

\* C1: when a second Schedule for a key is issued while the timer of the
\* first is still pending, the result of the first is never published; only
\* the second can be.
GenerationFencing ==
    \A id \in Ids :
        (~ops[id].priority /\ ops[id].replaced # 0) => ~WasPublished(ops[id].replaced)

\* A Schedule replaced a pending Schedule of its key, and its own result was
\* published.
GenerationFencingWitness ==
    \E id \in Ids :
        /\ ~ops[id].priority
        /\ ops[id].replaced # 0
        /\ ops[ops[id].replaced].status = "cancelled"
        /\ WasPublished(id)

\* C2: a completed result is published if and only if the generation it
\* captured equalled the key's counter when its work completed; a result
\* whose generation no longer matched is dropped and nothing is sent.
PublishedIffGenerationMatches ==
    /\ \A id \in Ids :
          /\ ops[id].status \in {"matched", "published"} => ops[id].g = ops[id].seen
          /\ ops[id].status = "dropped" => ops[id].g # ops[id].seen
          /\ WasPublished(id) <=> ops[id].status = "published"
    /\ \A n, m \in 1..Len(published) : published[n] = published[m] => n = m

\* One result was dropped as stale and another, of the same key, published.
PublishedIffGenerationMatchesWitness ==
    \E i, j \in Ids :
        /\ ops[i].key = ops[j].key
        /\ ops[i].status = "dropped"
        /\ ops[j].status = "published"

PriorityCancelsPendingTimer ==
    \A id \in Ids :
        ops[id].priority =>
            /\ ops[id].status \notin {"pending", "cancelled"}
            /\ ops[id].replaced # 0 => ops[ops[id].replaced].status = "cancelled"
            /\ (\A later \in Ids : later > id => ops[later].key # ops[id].key)
                  => timers[ops[id].key] = 0

\* A save that followed a pending edit: the edit's timer was cancelled, the
\* save's work completed, and it was the only run for the key.
PriorityCancelsPendingTimerWitness ==
    \E id \in Ids :
        /\ ops[id].priority
        /\ ops[id].replaced # 0
        /\ Completed(id)
        /\ Cardinality({other \in Ids : ops[other].key = ops[id].key /\ Executed(other)}) = 1

\* The operations of the burst that begins with operation first.
Burst(first) == {id \in Ids : ~ops[id].priority /\ ops[id].burst = first}
BurstPending(first) == \E id \in Burst(first) : ops[id].status = "pending"
BurstPreempted(first) ==
    \E id \in Ids : ops[id].priority /\ ops[id].replaced \in Burst(first)

\* C4: of N Schedule calls for one key, each issued before the timer of the
\* previous one fired, exactly one executes work: none while the last timer
\* is pending, one after it fired, never more.
DebounceCoalescing ==
    \A first \in Ids :
        Burst(first) # {} =>
            LET runs == Cardinality({id \in Burst(first) : Executed(id)})
            IN IF BurstPending(first) \/ BurstPreempted(first)
               THEN runs = 0
               ELSE runs = 1

\* Three rapid Schedule calls for one key, and the timer of the last fired.
DebounceCoalescingWitness ==
    \E first \in Ids :
        /\ Cardinality(Burst(first)) = 3
        /\ \E id \in Burst(first) : Completed(id)

\* The operations scheduled for key, and those among the first id.
OpsOf(key) == {id \in Ids : ops[id].key = key}
OpsUpTo(key, id) == {other \in OpsOf(key) : other <= id}

\* C31: a key has at most one pending timer, the one its map entry names;
\* every Schedule cancels and replaces the pending timer of its key, a
\* cancelled timer is one that was replaced and never runs its work, and the
\* entry of a timer is gone once it has fired.
OnePendingTimerPerKey ==
    /\ \A key \in Keys :
          timers[key] # 0 =>
              /\ timers[key] \in OpsOf(key)
              /\ ops[timers[key]].status = "pending"
    /\ \A id \in Ids :
          /\ ops[id].status = "pending" => timers[ops[id].key] = id
          /\ ops[id].replaced # 0 =>
                /\ ops[id].replaced \in OpsUpTo(ops[id].key, id - 1)
                /\ ops[ops[id].replaced].status = "cancelled"
          /\ ops[id].status = "cancelled" =>
                \E later \in Ids : later > id /\ ops[later].replaced = id

\* A Schedule cancelled the pending timer of its key, its own timer fired,
\* and the key has no entry left.
OnePendingTimerPerKeyWitness ==
    \E id \in Ids :
        /\ ~ops[id].priority
        /\ ops[id].replaced # 0
        /\ ops[ops[id].replaced].status = "cancelled"
        /\ Executed(id)
        /\ timers[ops[id].key] = 0

\* C32: the generation counter of a key counts the Schedule and
\* SchedulePriority calls made for the key: each call adds one and captures
\* the new value, and no timer firing, work completion or publication moves
\* the counter, so that it never goes down and is never reset.
GenerationCountsScheduleCalls ==
    /\ \A key \in Keys : generation[key] = Cardinality(OpsOf(key))
    /\ \A id \in Ids : ops[id].g = Cardinality(OpsUpTo(ops[id].key, id))

\* A key was scheduled twice, the work of both calls completed, the later
\* result was published, and the counter stands at two.
GenerationCountsScheduleCallsWitness ==
    \E key \in Keys :
        /\ generation[key] = 2
        /\ \E i, j \in OpsOf(key) :
              /\ i < j
              /\ Completed(i)
              /\ ops[j].status = "published"

\* The keys other than the one a step is about: for a Schedule or
\* SchedulePriority call the key of the operation it adds, otherwise the
\* key of the operation whose record changes.
OtherKeys ==
    IF Len(ops') > Len(ops)
    THEN Keys \ {ops'[Len(ops')].key}
    ELSE {key \in Keys : \A id \in Ids : ops'[id] # ops[id] => ops[id].key # key}

\* C33: the diagnostics and the formatting scheduler are independent: a
\* step made for one key leaves the pending timer, the generation counter
\* and the operations of every other key, the other kind of the same
\* document included, as they were.
KindsAreIndependent ==
    [][\A key \in OtherKeys :
          /\ timers'[key] = timers[key]
          /\ generation'[key] = generation[key]
          /\ \A id \in OpsOf(key) : ops'[id] = ops[id]]_vars

\* A diagnostics run of a document was scheduled while the formatting timer
\* of the same document was pending, and that timer is still pending.
KindsAreIndependentWitness ==
    \E uri \in Uris :
        LET pending == timers[<<uri, "formatting">>]
        IN /\ pending # 0
           /\ ops[pending].status = "pending"
           /\ \E id \in OpsOf(<<uri, "diagnostics">>) : id > pending

\* ------------------------------------------------ the lock of a scheduler

\* One scheduled operation from the Schedule call to the comparison of its
\* generation, as the goroutines that carry it take and release the lock of
\* the scheduler:
\*   "idle"          not yet scheduled
\*   "scheduleLock"  Schedule was called and is at Lock()
\*   "scheduling"    Schedule holds the lock and changes the maps
\*   "armed"         Schedule returned; the timer is pending
\*   "timerLock"     the timer fired and its callback is at Lock()
\*   "firing"        the callback holds the lock and removes the timer entry
\*   "working"       work executes
\*   "compareLock"   work returned and the callback is at Lock()
\*   "comparing"     the callback holds the lock and compares g to the counter
\*   "done"          the callback released the lock, and publishes or drops
Task(pc, uri) == [pc |-> pc, uri |-> uri]

AtLock == {"scheduleLock", "timerLock", "compareLock"}

\* Where Lock() leaves a task that was waiting at pc.
Locked(pc) ==
    IF pc = "scheduleLock" THEN "scheduling"
    ELSE IF pc = "timerLock" THEN "firing"
    ELSE "comparing"

\* The callback goes on to work with the lock still held.
WorkUnderLock(holder) == holder

\* The callback unlocks once the timer entry is removed, before work.
UnlockBeforeWork(holder) == 0

\* A handler calls Schedule for a document.
ScheduleCalled(t, uri) ==
    /\ tasks[t].pc = "idle"
    /\ tasks' = [tasks EXCEPT ![t] = Task("scheduleLock", uri)]
    /\ UNCHANGED diagMu
    /\ UNCHANGED <<diffVars, gwVars, collVars, schedVars, diagVars, sessVars,
                   watchVars, cacheVars, reqVars, loadVars>>

\* Lock() returns in task t: no task holds the lock.
LockTaken(t) ==
    /\ tasks[t].pc \in AtLock
    /\ diagMu = 0
    /\ diagMu' = t
    /\ tasks' = [tasks EXCEPT ![t].pc = Locked(@)]
    /\ UNCHANGED <<diffVars, gwVars, collVars, schedVars, diagVars, sessVars,
                   watchVars, cacheVars, reqVars, loadVars>>

\* Schedule has cancelled the pending timer, incremented the counter and
\* armed the new timer: it unlocks and returns.
ScheduleReturns(t) ==
    /\ tasks[t].pc = "scheduling"
    /\ diagMu' = 0
    /\ tasks' = [tasks EXCEPT ![t].pc = "armed"]
    /\ UNCHANGED <<diffVars, gwVars, collVars, schedVars, diagVars, sessVars,
                   watchVars, cacheVars, reqVars, loadVars>>

\* The timer of task t fires: its callback begins, at Lock().
TimerCallback(t) ==
    /\ tasks[t].pc = "armed"
    /\ tasks' = [tasks EXCEPT ![t].pc = "timerLock"]
    /\ UNCHANGED diagMu
    /\ UNCHANGED <<diffVars, gwVars, collVars, schedVars, diagVars, sessVars,
                   watchVars, cacheVars, reqVars, loadVars>>

\* The callback has removed the pending-timer entry: it unlocks and
\* executes work.
WorkStarts(t) ==
    /\ tasks[t].pc = "firing"
    /\ diagMu' = UnlockBeforeWork(diagMu)
    /\ tasks' = [tasks EXCEPT ![t].pc = "working"]
    /\ UNCHANGED <<diffVars, gwVars, collVars, schedVars, diagVars, sessVars,
                   watchVars, cacheVars, reqVars, loadVars>>

\* work returns: the callback is at Lock(), to compare g to the counter.
WorkDone(t) ==
    /\ tasks[t].pc = "working"
    /\ tasks' = [tasks EXCEPT ![t].pc = "compareLock"]
    /\ UNCHANGED diagMu
    /\ UNCHANGED <<diffVars, gwVars, collVars, schedVars, diagVars, sessVars,
                   watchVars, cacheVars, reqVars, loadVars>>

\* The callback has compared g to the counter: it unlocks, and publishes on
\* a match.
CompareReturns(t) ==
    /\ tasks[t].pc = "comparing"
    /\ diagMu' = 0
    /\ tasks' = [tasks EXCEPT ![t].pc = "done"]
    /\ UNCHANGED <<diffVars, gwVars, collVars, schedVars, diagVars, sessVars,
                   watchVars, cacheVars, reqVars, loadVars>>

InitLock ==
    /\ LockOff
    /\ DiffOff
    /\ GatewayOff
    /\ CollectOff
    /\ SchedOff
    /\ DiagnoseOff
    /\ SessionOff
    /\ WatchedOff
    /\ CacheOff
    /\ RequestOff
    /\ LoadOff

NextLock ==
    \/ \E t \in Tasks, uri \in Uris : ScheduleCalled(t, uri)
    \/ \E t \in Tasks : LockTaken(t)
    \/ \E t \in Tasks : ScheduleReturns(t)
    \/ \E t \in Tasks : TimerCallback(t)
    \/ \E t \in Tasks : WorkStarts(t)
    \/ \E t \in Tasks : WorkDone(t)
    \/ \E t \in Tasks : CompareReturns(t)

\* A goroutine that can run does run, so a goroutine leaves its critical
\* section and a goroutine at Lock() takes a lock that stays free. No
\* handler has to call Schedule, and work, which waits for an external
\* process, may never return.
SpecLock ==
    /\ InitLock
    /\ [][NextLock]_vars
    /\ \A t \in Tasks : WF_vars(LockTaken(t))
    /\ \A t \in Tasks : WF_vars(ScheduleReturns(t))
    /\ \A t \in Tasks : WF_vars(WorkStarts(t))
    /\ \A t \in Tasks : WF_vars(CompareReturns(t))

\* C34: work never executes while the lock of the scheduler is held by the
\* goroutine that runs it, so that the work of several documents can be in
\* progress at once and a Schedule call returns whether or not the work
\* that is running ever completes.
WorkRunsOutsideLock ==
    /\ [](\A t \in Tasks : tasks[t].pc = "working" => diagMu # t)
    /\ \A t \in Tasks : (tasks[t].pc = "scheduleLock") ~> (tasks[t].pc = "armed")

\* The work of two documents is in progress while a Schedule call is in its
\* critical section.
WorkRunsOutsideLockWitness ==
    \E t1, t2, t3 \in Tasks :
        /\ tasks[t1].pc = "working" /\ tasks[t2].pc = "working"
        /\ tasks[t1].uri # tasks[t2].uri
        /\ tasks[t3].pc = "scheduling"
        /\ diagMu = t3

\* ------------------------------------- PhpCsFixer.parseDiffForDiagnostics

\* uint32(n): n modulo 2^32, held as two 16-bit halves.
Uint32(n) == [hi |-> (n \div 65536) % 65536, lo |-> n % 65536]

\* protocol.Position and protocol.Range
Position(line, character) == [Line |-> Uint32(line), Character |-> Uint32(character)]
Range(startLine, startChar, endLine, endChar) ==
    [Start |-> Position(startLine, startChar), End |-> Position(endLine, endChar)]

\* strings.TrimPrefix(line, "-")
TrimPrefix(line, c) == IF Len(line) > 0 /\ line[1] = c THEN Tail(line) ELSE line

\* strings.TrimSpace(s)
RECURSIVE TrimLeft(_)
TrimLeft(s) == IF Len(s) > 0 /\ IsSpace(s[1]) THEN TrimLeft(Tail(s)) ELSE s
RECURSIVE TrimRight(_)
TrimRight(s) ==
    IF Len(s) > 0 /\ IsSpace(s[Len(s)]) THEN TrimRight(SubSeq(s, 1, Len(s) - 1)) ELSE s
TrimSpace(s) == TrimRight(TrimLeft(s))

\* reC.FindStringSubmatch(line): the position of the leftmost match, 0 if none.
RECURSIVE MatchPosFrom(_, _)
MatchPosFrom(s, i) ==
    IF i > Len(s) THEN 0
    ELSE IF MatchAt(s, i) # NoMatch THEN i
    ELSE MatchPosFrom(s, i + 1)

\* matches[2] of the match at position i: the digits after the first comma,
\* the empty string when the optional group took nothing.
Group2(s, i) ==
    LET old == SideAt(s, SkipSpaces(s, i + 2), "-")
    IN SubSeq(s, old[3] + 2, old[1] - 1)

\* The loop state: originalLineNum, originalColNum, lineChange, and the
\* ranges the line appended.
Scan(num, col, change, appended) ==
    [num |-> num, col |-> col, change |-> change, appended |-> appended]

\* if strings.HasPrefix(line, "@@"): on a match, originalLineNum is
\* matches[1] - 1 and originalColNum is matches[2] - 1 when matches[2] is a
\* number.
ScanHunkHeader(line, num, col, change) ==
    LET at == MatchPosFrom(line, 1) IN
    IF at = 0 THEN Scan(num, col, change, <<>>)
    ELSE Scan(MatchAt(line, at) - 1,
              IF Len(Group2(line, at)) > 0 THEN Atoi(Group2(line, at)) - 1 ELSE col,
              change, <<>>)

\* case '-'
ScanRemoved(line, num, col, change) ==
    Scan(num + 1, col, TRUE,
         <<Range(num, col, num, Len(TrimSpace(TrimPrefix(line, "-"))))>>)

\* case '+'
ScanAdded(line, num, col, change) ==
    Scan(num + 1, col, change,
         IF ~change THEN <<Range(num, col, num, col)>> ELSE <<>>)

\* case ' '
ScanContext(line, num, col, change) == Scan(num + 1, col, change, <<>>)

\* The body of the loop for one line.
ScanLine(line, num, col, change) ==
    IF HasPrefix(line, <<"-", "-", "-">>) \/ HasPrefix(line, <<"+", "+", "+">>)
    THEN Scan(num, col, change, <<>>)
    ELSE IF HasPrefix(line, <<"@", "@">>) THEN ScanHunkHeader(line, num, col, change)
    ELSE IF Len(line) = 0 THEN Scan(num, col, change, <<>>)
    ELSE CASE line[1] = "-" -> ScanRemoved(line, num, col, change)
           [] line[1] = "+" -> ScanAdded(line, num, col, change)
           [] line[1] = " " -> ScanContext(line, num, col, change)
           [] OTHER -> Scan(num, col, change, <<>>)

\* The texts of the analysed documents: plain, indented with trailing
\* whitespace, and a PHP statement that begins with the decrement operator.
DiagLineSet == { <<"a", "b">>, <<" ", "c", " ">>, <<"-", "-", "x">> }

\* The edits of a document: every choice of line operations and at most
\* MaxAdds added lines.
DiagScripts(lines) ==
    { MakeScript(lines, lineOps, adds) :
        lineOps \in [1..Len(lines) -> {"skip", "ctx", "del"}],
        adds \in SeqsUpTo([pos : 0..Len(lines), text : {<<"n">>}], MaxAdds) }

InitDiagnose ==
    /\ dgpc = "input"
    /\ \E doc \in UNION {[1..n -> DiagLineSet] : n \in 0..MaxLines} :
          dgScript \in DiagScripts(doc)
    /\ dgDiff = DiffText(dgScript)
    /\ dgLines = <<>>
    /\ dgNext = 0
    /\ lineNum = 0
    /\ colNum = 0
    /\ lineChange = FALSE
    /\ linesRange = <<>>
    /\ rangesOf = <<>>
    /\ DiffOff
    /\ GatewayOff
    /\ CollectOff
    /\ SchedOff
    /\ SessionOff
    /\ WatchedOff
    /\ CacheOff
    /\ RequestOff
    /\ LockOff
    /\ LoadOff

\* if file.Diff != "": parseDiffForDiagnostics(file.Diff) up to the loop.
DiagnoseCall ==
    /\ dgpc = "input"
    /\ dgLines' = Split(dgDiff)
    /\ dgNext' = 1
    /\ dgpc' = "loop"
    /\ UNCHANGED <<dgScript, dgDiff, lineNum, colNum, lineChange, linesRange, rangesOf>>
    /\ UNCHANGED <<diffVars, gwVars, collVars, schedVars, sessVars,
                    watchVars, cacheVars, reqVars, lockVars, loadVars>>

\* One iteration of for _, line := range lines.
DiagnoseLine ==
    /\ dgpc = "loop"
    /\ dgNext <= Len(dgLines)
    /\ LET sn == ScanLine(dgLines[dgNext], lineNum, colNum, lineChange)
       IN /\ lineNum' = sn.num
          /\ colNum' = sn.col
          /\ lineChange' = sn.change
          /\ linesRange' = linesRange \o sn.appended
          /\ rangesOf' = Append(rangesOf, sn.appended)
    /\ dgNext' = dgNext + 1
    /\ UNCHANGED <<dgpc, dgScript, dgDiff, dgLines>>
    /\ UNCHANGED <<diffVars, gwVars, collVars, schedVars, sessVars,
                    watchVars, cacheVars, reqVars, lockVars, loadVars>>

\* return linesRange
DiagnoseReturn ==
    /\ dgpc = "loop"
    /\ dgNext > Len(dgLines)
    /\ dgpc' = "returned"
    /\ UNCHANGED <<dgScript, dgDiff, dgLines, dgNext, lineNum, colNum, lineChange,
                   linesRange, rangesOf>>
    /\ UNCHANGED <<diffVars, gwVars, collVars, schedVars, sessVars,
                    watchVars, cacheVars, reqVars, lockVars, loadVars>>

NextDiagnose == DiagnoseCall \/ DiagnoseLine \/ DiagnoseReturn

SpecDiagnose == InitDiagnose /\ [][NextDiagnose]_vars

\* ------------------------------------------------------- Diagnose claims

\* The index in dgLines of the diff line of script entry k (an entry inside
\* a hunk): the two file header lines, the hunk headers up to k, and the
\* body lines up to k.
DiffLineOf(sc, k) ==
    2 + Cardinality({i \in 1..k : sc[i].op # "skip" /\ (i = 1 \/ sc[i - 1].op = "skip")})
      + Cardinality({i \in 1..k : sc[i].op # "skip"})

\* The 0-indexed line of the original at script entry k: the original lines
\* before it.
OrigLineOf(sc, k) == CountOld(sc, 1, k - 1)

\* The entry before the run of added lines that entry k belongs to (0 when
\* the run begins the script).
RECURSIVE BeforeRun(_, _)
BeforeRun(sc, k) ==
    IF k = 1 THEN 0
    ELSE IF sc[k - 1].op = "add" THEN BeforeRun(sc, k - 1)
    ELSE k - 1

Replaces(sc, k) ==
    /\ sc[k].op = "add"
    /\ BeforeRun(sc, k) # 0
    /\ sc[BeforeRun(sc, k)].op = "del"

Inserts(sc, k) == sc[k].op = "add" /\ ~Replaces(sc, k)

\* C11: every removed line of the diff emits exactly one range: from column
\* 0 of its own 0-indexed line to the trimmed length of the removed text on
\* that line, whatever counts the hunk header carries.
RemovedLineRange ==
    dgpc = "returned" =>
        \A k \in 1..Len(dgScript) :
            dgScript[k].op = "del" =>
                rangesOf[DiffLineOf(dgScript, k)] =
                    << Range(OrigLineOf(dgScript, k), 0,
                             OrigLineOf(dgScript, k), Len(TrimSpace(dgScript[k].text))) >>

\* C12: an added line with no removal immediately before it emits a
\* zero-width range at the insertion point, column 0, also when a removal
\* stands earlier in the diff.
InsertionZeroWidthRange ==
    dgpc = "returned" =>
        \A k \in 1..Len(dgScript) :
            Inserts(dgScript, k) =>
                rangesOf[DiffLineOf(dgScript, k)] =
                    << Range(OrigLineOf(dgScript, k), 0, OrigLineOf(dgScript, k), 0) >>

\* C13: a removed line that is followed by its replacement emits one range
\* and the added lines that replace it emit none; a context line emits none.
ReplacementEmitsRemovalOnly ==
    dgpc = "returned" =>
        \A k \in 1..Len(dgScript) :
            /\ Replaces(dgScript, k) =>
                  /\ rangesOf[DiffLineOf(dgScript, k)] = <<>>
                  /\ Len(rangesOf[DiffLineOf(dgScript, BeforeRun(dgScript, k))]) = 1
            /\ dgScript[k].op = "ctx" => rangesOf[DiffLineOf(dgScript, k)] = <<>>

\* C38: the range of every removed line lies on the 0-indexed position of
\* that line in the original: a hunk header seeds the line cursor, context
\* and removed lines advance it, and added lines do not (in the hunk
\* " line 1, -line 2, +new line 2, -line 3" the ranges lie on lines 1 and 2).
RemovedLineNumber ==
    dgpc = "returned" =>
        \A k \in 1..Len(dgScript) :
            dgScript[k].op = "del" =>
                LET emitted == rangesOf[DiffLineOf(dgScript, k)]
                IN \A n \in 1..Len(emitted) :
                      /\ emitted[n].Start.Line = Uint32(OrigLineOf(dgScript, k))
                      /\ emitted[n].End.Line = Uint32(OrigLineOf(dgScript, k))

\* a <= b for two uint32 values.
Uint32LessEq(a, b) == a.hi < b.hi \/ (a.hi = b.hi /\ a.lo <= b.lo)

\* C39: every range parseDiffForDiagnostics returns is well formed: it
\* starts and ends on the same line and its start character is not after
\* its end character, whatever counts the hunk header carries and however
\* short the removed text is.
RangesWellFormed ==
    \A n \in 1..Len(linesRange) :
        /\ linesRange[n].Start.Line = linesRange[n].End.Line
        /\ Uint32LessEq(linesRange[n].Start.Character, linesRange[n].End.Character)

\* ------------------------------------------- malformed and header-less diffs

\* What stands where the hunk header should: nothing, or a line that begins
\* with "@@" and that the hunk header pattern does not match.
NoHeader == <<>>
InvalidHeader == <<"@", "@", " ", "i", "n", "v", "a", "l", "i", "d", " ", "@", "@">>

\* The body lines of a script: one hunk over the whole document.
BodyLines(sc) == [k \in 1..Len(sc) |-> BodyLine(sc[k])]

\* The two file header lines, the header (if any), and the body lines.
MalformedDiffText(sc, header) ==
    Join(<< <<"-", "-", "-", " ", "a">>, <<"+", "+", "+", " ", "b">> >>
         \o (IF header = NoHeader THEN <<>> ELSE <<header>>)
         \o BodyLines(sc))

\* The edits whose hunk covers every line of the document.
WholeScripts(lines) ==
    { MakeScript(lines, lineOps, adds) :
        lineOps \in [1..Len(lines) -> {"ctx", "del"}],
        adds \in SeqsUpTo([pos : 0..Len(lines), text : {<<"n">>}], MaxAdds) }

InitMalformed ==
    /\ origLines \in UNION {[1..n -> DiagLineSet] : n \in 0..MaxLines}
    /\ script \in WholeScripts(origLines)
    /\ original = Text(origLines)
    /\ \E header \in {NoHeader, InvalidHeader} : diffStr = MalformedDiffText(script, header)
    /\ formatted = <<>>
    /\ back = <<>>
    /\ dpc = "input"
    /\ dgpc = "input"
    /\ dgScript = script
    /\ dgDiff = diffStr
    /\ dgLines = <<>>
    /\ dgNext = 0
    /\ lineNum = 0
    /\ colNum = 0
    /\ lineChange = FALSE
    /\ linesRange = <<>>
    /\ rangesOf = <<>>
    /\ GatewayOff
    /\ CollectOff
    /\ SchedOff
    /\ SessionOff
    /\ WatchedOff
    /\ CacheOff
    /\ RequestOff
    /\ LockOff
    /\ LoadOff

NextMalformed == ApplyDiff \/ DiagnoseCall \/ DiagnoseLine \/ DiagnoseReturn

SpecMalformed == InitMalformed /\ [][NextMalformed]_vars

\* C14: on a diff whose hunk header is malformed or missing, whatever body
\* lines it carries, ApplyUnifiedDiff returns the original content and
\* parseDiffForDiagnostics returns no range.
MalformedDiffIsNoChange ==
    /\ dpc = "applied" => formatted = original
    /\ dgpc = "returned" => linesRange = <<>>

\* ------------------------------------------------------------ the session

\* The document notifications Handle dispatches.
DocumentMethods == {"didOpen", "didChange", "didSave", "didClose"}

\* A request as Handle saw it: the method, the lifecycle state it arrived in,
\* and what the handler did with it.
Handled(method, in, effect) == [method |-> method, in |-> in, effect |-> effect]

\* reply(ctx, result, nil)
Reply(to, result) == [to |-> to, result |-> result, err |-> FALSE]

\* The lifecycle state. The Server keeps no state field: the state is read
\* off what it holds and what it has done. ShuttingDown is entered by a
\* shutdown request that arrived in Initialized.
SessionState ==
    IF process = "exited" THEN "Exited"
    ELSE IF \E i \in 1..Len(handled) :
               handled[i].method = "shutdown" /\ handled[i].in = "Initialized"
         THEN "ShuttingDown"
    ELSE IF initialized THEN "Initialized"
    ELSE "Uninitialized"

\* A message was read from the stream and Handle is called with it.
Receiving ==
    /\ process = "running"
    /\ runLoop = "reading"
    /\ conn = "open"
    /\ Len(handled) < MaxRequests

\* The configuration is loaded on every initialize request.
AlwaysLoadConfig(isInitialized) == TRUE

\* if !s.serverConfig.IsInitialized()
MustLoadConfig(isInitialized) == ~isInitialized

\* The handler goes on without a configuration.
NoConfigContinues(running) == running

\* LoadConfig returned an error: os.Exit(0)
NoConfigExits(running) == "exited"

\* handleInitialize
HandleInitialize(paramsOk) ==
    /\ Receiving
    /\ IF ~paramsOk
       THEN \* json.Unmarshal failed: return err
            /\ handled' = Append(handled, Handled("initialize", SessionState, "badParams"))
            /\ UNCHANGED <<initialized, configLoads, process, replies>>
       ELSE IF MustLoadConfig(initialized) /\ ~configOnDisk
       THEN /\ process' = NoConfigExits(process)
            /\ IF process' = "exited"
               THEN /\ handled' = Append(handled, Handled("initialize", SessionState, "fatal"))
                    /\ UNCHANGED replies
               ELSE /\ handled' = Append(handled, Handled("initialize", SessionState, "degraded"))
                    /\ replies' = Append(replies, Reply("initialize", "capabilities"))
            /\ UNCHANGED <<initialized, configLoads>>
       ELSE IF MustLoadConfig(initialized)
       THEN /\ initialized' = TRUE
            /\ configLoads' = configLoads + 1
            /\ handled' = Append(handled, Handled("initialize", SessionState, "loaded"))
            /\ replies' = Append(replies, Reply("initialize", "capabilities"))
            /\ UNCHANGED process
       ELSE /\ handled' = Append(handled, Handled("initialize", SessionState, "none"))
            /\ replies' = Append(replies, Reply("initialize", "capabilities"))
            /\ UNCHANGED <<initialized, configLoads, process>>
    /\ UNCHANGED <<configOnDisk, conn, runLoop, notified>>
    /\ UNCHANGED <<diffVars, gwVars, collVars, schedVars, diagVars,
                    watchVars, cacheVars, reqVars, lockVars, loadVars>>

\* handleDidOpen, handleDidChange, handleDidSave, handleDidClose:
\* collectDiagnostics, then publishDiagnostics. The providers run when the
\* configuration is loaded (it names an enabled provider); with the empty
\* configuration collectDiagnostics returns nil and the empty list is
\* published.
HandleDocument(method, paramsOk) ==
    /\ Receiving
    /\ IF ~paramsOk
       THEN /\ handled' = Append(handled, Handled(method, SessionState, "badParams"))
            /\ UNCHANGED notified
       ELSE /\ handled' = Append(handled, Handled(method, SessionState, "published"))
            /\ notified' = Append(notified,
                   [method |-> method, in |-> SessionState, analysed |-> initialized])
    /\ UNCHANGED <<configOnDisk, initialized, configLoads, conn, runLoop, process, replies>>
    /\ UNCHANGED <<diffVars, gwVars, collVars, schedVars, diagVars,
                    watchVars, cacheVars, reqVars, lockVars, loadVars>>

\* The shutdown handler closes the connection.
ShutdownClosesConn(c) == "closed"

\* handleShutdown leaves the connection as it is.
ConnAfterShutdown(c) == c

\* handleShutdown: return reply(ctx, nil, nil)
HandleShutdown ==
    /\ Receiving
    /\ handled' = Append(handled, Handled("shutdown", SessionState, "acknowledged"))
    /\ replies' = Append(replies, Reply("shutdown", "null"))
    /\ conn' = ConnAfterShutdown(conn)
    /\ UNCHANGED <<configOnDisk, initialized, configLoads, runLoop, process, notified>>
    /\ UNCHANGED <<diffVars, gwVars, collVars, schedVars, diagVars,
                    watchVars, cacheVars, reqVars, lockVars, loadVars>>

\* A method Handle has no case for.
UnhandledMethod == "textDocument/hover"

\* The default case returns without a reply.
UnhandledDropped(sent, method) == sent

\* default: return reply(ctx, nil, nil)
UnhandledReply(sent, method) == Append(sent, Reply(method, "null"))

\* Handle, the default case of the switch.
HandleUnhandled ==
    /\ Receiving
    /\ handled' = Append(handled, Handled(UnhandledMethod, SessionState, "acknowledged"))
    /\ replies' = UnhandledReply(replies, UnhandledMethod)
    /\ UNCHANGED <<configOnDisk, initialized, configLoads, conn, runLoop, process, notified>>
    /\ UNCHANGED <<diffVars, gwVars, collVars, schedVars, diagVars,
                    watchVars, cacheVars, reqVars, lockVars, loadVars>>

\* The exit handler returns without closing the connection.
ConnLeftOpen(c) == c

\* s.conn.Close()
ConnClose(c) == "closed"

\* handleExit: return s.conn.Close()
HandleExit ==
    /\ Receiving
    /\ handled' = Append(handled, Handled("exit", SessionState, "closed"))
    /\ conn' = ConnClose(conn)
    /\ UNCHANGED <<configOnDisk, initialized, configLoads, runLoop, process, replies, notified>>
    /\ UNCHANGED <<diffVars, gwVars, collVars, schedVars, diagVars,
                    watchVars, cacheVars, reqVars, lockVars, loadVars>>

\* The loop started by conn.Go reads from the closed stream: the read fails,
\* the loop returns and conn.Done() is closed.
ReadFails ==
    /\ process = "running"
    /\ runLoop = "reading"
    /\ conn = "closed"
    /\ runLoop' = "done"
    /\ UNCHANGED <<configOnDisk, initialized, configLoads, conn, process, handled,
                   replies, notified>>
    /\ UNCHANGED <<diffVars, gwVars, collVars, schedVars, diagVars,
                    watchVars, cacheVars, reqVars, lockVars, loadVars>>

\* main: <-conn.Done() returns, and main ends (log.Fatalf or return).
MainReturns ==
    /\ process = "running"
    /\ runLoop = "done"
    /\ process' = "exited"
    /\ UNCHANGED <<configOnDisk, initialized, configLoads, conn, runLoop, handled,
                   replies, notified>>
    /\ UNCHANGED <<diffVars, gwVars, collVars, schedVars, diagVars,
                    watchVars, cacheVars, reqVars, lockVars, loadVars>>

\* server.New(conn); conn.Go(ctx, lspServer.Handle)
InitSession ==
    /\ configOnDisk \in BOOLEAN
    /\ initialized = FALSE
    /\ configLoads = 0
    /\ conn = "open"
    /\ runLoop = "reading"
    /\ process = "running"
    /\ handled = <<>>
    /\ replies = <<>>
    /\ notified = <<>>
    /\ DiffOff
    /\ GatewayOff
    /\ CollectOff
    /\ SchedOff
    /\ DiagnoseOff
    /\ WatchedOff
    /\ CacheOff
    /\ RequestOff
    /\ LockOff
    /\ LoadOff

NextSession ==
    \/ \E paramsOk \in BOOLEAN : HandleInitialize(paramsOk)
    \/ \E method \in DocumentMethods, paramsOk \in BOOLEAN : HandleDocument(method, paramsOk)
    \/ HandleShutdown
    \/ HandleExit
    \/ HandleUnhandled
    \/ ReadFails
    \/ MainReturns

\* The loop of the connection and main run whenever they can; the client
\* sends what it likes, or nothing.
SpecSession ==
    InitSession /\ [][NextSession]_vars /\ WF_vars(ReadFails) /\ WF_vars(MainReturns)

\* ---------------------------------------------------------- session claims

ExitHandled == \E i \in 1..Len(handled) : handled[i].method = "exit"

\* C15: an initialize request that arrives in a state other than
\* Uninitialized loads no configuration and leaves the state as it is: the
\* configuration is loaded at most once.
InitializeOnlyWhenUninitialized ==
    /\ configLoads <= 1
    /\ \A i \in 1..Len(handled) :
          (handled[i].method = "initialize" /\ handled[i].in # "Uninitialized")
              => handled[i].effect \in {"none", "badParams"}

\* A second initialize request arrived in Initialized, and one in
\* ShuttingDown.
InitializeOnlyWhenUninitializedWitness ==
    /\ \E i \in 1..Len(handled) :
          handled[i].method = "initialize" /\ handled[i].in = "Initialized"
    /\ \E i \in 1..Len(handled) :
          handled[i].method = "initialize" /\ handled[i].in = "ShuttingDown"

\* C16: the document notifications take effect only in Initialized: in every
\* other state they run no provider and publish nothing.
DocumentsOnlyWhenInitialized ==
    \A n \in 1..Len(notified) : notified[n].in = "Initialized"

\* C17: a shutdown request that arrives in Initialized is acknowledged with
\* a success reply and the session is ShuttingDown; the connection stays
\* open until an exit notification has come.
ShutdownKeepsTransportOpen ==
    \A i \in 1..Len(handled) :
        (handled[i].method = "shutdown" /\ handled[i].in = "Initialized") =>
            /\ \E r \in 1..Len(replies) : replies[r] = Reply("shutdown", "null")
            /\ SessionState \in {"ShuttingDown", "Exited"}
            /\ conn = "closed" => ExitHandled

\* Shutdown was acknowledged in Initialized and a later document
\* notification still went over the open connection.
ShutdownKeepsTransportOpenWitness ==
    /\ conn = "open"
    /\ \E i, j \in 1..Len(handled) :
          /\ i < j
          /\ handled[i].method = "shutdown"
          /\ handled[i].in = "Initialized"
          /\ handled[j].method \in DocumentMethods

\* C18: after an exit notification, in whatever state it arrived, the
\* connection is closed and the process ends.
ExitAlwaysTerminates ==
    ExitHandled ~> (conn = "closed" /\ process = "exited")

\* The process ended on an exit notification that no shutdown request
\* preceded.
ExitAlwaysTerminatesWitness ==
    /\ process = "exited"
    /\ ExitHandled
    /\ \A i \in 1..Len(handled) : handled[i].method # "shutdown"

\* C19: with no configuration to load, an initialize request ends the
\* process: no capabilities are sent, the session is never initialized and
\* no request is handled after it.
ConfigAbsenceIsFatal ==
    ~configOnDisk =>
        /\ ~initialized
        /\ \A r \in 1..Len(replies) : replies[r].result # "capabilities"
        /\ \A i \in 1..Len(handled) :
              handled[i].method = "initialize" =>
                  \/ handled[i].effect = "badParams"
                  \/ /\ handled[i].effect = "fatal"
                     /\ i = Len(handled)
                     /\ process = "exited"

\* The process ended on an initialize request, after it served a document
\* notification.
ConfigAbsenceIsFatalWitness ==
    /\ ~configOnDisk
    /\ process = "exited"
    /\ Len(handled) >= 2
    /\ handled[Len(handled)].effect = "fatal"

\* C28: a method Handle has no case for is answered with an empty success
\* reply in every state, and handling it changes neither the lifecycle state
\* nor the configuration, the connection, what was published or any
\* scheduled operation.
UnhandledMethodsAcknowledged ==
    [][(Len(handled') > Len(handled) /\ handled'[Len(handled')].method = UnhandledMethod)
          => /\ replies' = Append(replies, Reply(UnhandledMethod, "null"))
             /\ SessionState' = SessionState
             /\ UNCHANGED <<configOnDisk, initialized, configLoads, conn, runLoop,
                            process, notified, schedVars>>]_vars

\* The method was acknowledged before initialize and again after shutdown.
UnhandledMethodsAcknowledgedWitness ==
    /\ \E i \in 1..Len(handled) :
          handled[i].method = UnhandledMethod /\ handled[i].in = "Uninitialized"
    /\ \E i \in 1..Len(handled) :
          handled[i].method = UnhandledMethod /\ handled[i].in = "ShuttingDown"
    /\ Len(replies) >= 4

\* ------------------------------------- Server.handleDidChangeWatchedFiles

\* Most changes one workspace/didChangeWatchedFiles notification carries.
MaxChanges == 2

\* The URIs of watched files, by their last characters: a PHP file, a text
\* file, files whose names only hold "php", and a file named ".php".
WatchedUris ==
    { <<"a", ".", "p", "h", "p">>,
      <<"a", ".", "t", "x", "t">>,
      <<"a", ".", "p", "h", "p", "s">>,
      <<"p", "h", "p">>,
      <<".", "p", "h", "p">> }

\* protocol.FileChangeType
ChangeTypes == {"Created", "Changed", "Deleted"}

\* A test that every name passes.
AnySuffix(s, suffix) == TRUE

\* strings.HasSuffix(s, suffix)
HasSuffix(s, suffix) ==
    /\ Len(s) >= Len(suffix)
    /\ SubSeq(s, Len(s) - Len(suffix) + 1, Len(s)) = suffix

\* The slice is passed on as it is.
SameSlice(slice) == slice

\* utils.EnsureDiagnosticsArray
EnsureDiagnosticsArray(slice) == IF slice.nil THEN Slice(<<>>) ELSE slice

\* What collectDiagnostics returns: the nil slice (an ignored path, no
\* provider, or no diagnostics appended) or the diagnostics appended.
CollectResults ==
    {NilSlice} \cup {Slice(ProviderDiagnostics("phpstan", n)) : n \in 1..MaxDiags}

\* publishDiagnostics(ctx, uri, passed) for change number change: the
\* parameters of the notification, and the slice the caller passed.
Publication(change, uri, passed) ==
    [change |-> change,
     params |-> [URI |-> uri, Diagnostics |-> EnsureDiagnosticsArray(passed)],
     passed |-> passed]

\* The encoding/json form of a slice: null for the nil slice, an array otherwise.
Marshal(slice) == IF slice.nil THEN [null |-> TRUE, array |-> <<>>]
                  ELSE [null |-> FALSE, array |-> slice.elems]

\* The body of `for _, change := range params.Changes` at change i; results[i]
\* is what collectDiagnostics returns if it is called there.
AnalysedAt(chs, i) ==
    IF HasSuffix(chs[i].URI, <<".", "p", "h", "p">>) /\ chs[i].Type \in {"Changed", "Created"}
    THEN << [change |-> i, uri |-> chs[i].URI] >>
    ELSE <<>>

PublishedAt(chs, results, i) ==
    IF ~HasSuffix(chs[i].URI, <<".", "p", "h", "p">>) THEN <<>>
    ELSE IF chs[i].Type \in {"Changed", "Created"}
    THEN << Publication(i, chs[i].URI, results[i]) >>
    ELSE IF chs[i].Type = "Deleted"
    THEN << Publication(i, chs[i].URI, Slice(<<>>)) >>
    ELSE <<>>

RECURSIVE AnalysedFrom(_, _)
AnalysedFrom(chs, i) ==
    IF i > Len(chs) THEN <<>> ELSE AnalysedAt(chs, i) \o AnalysedFrom(chs, i + 1)

RECURSIVE PublishedFrom(_, _, _)
PublishedFrom(chs, results, i) ==
    IF i > Len(chs) THEN <<>>
    ELSE PublishedAt(chs, results, i) \o PublishedFrom(chs, results, i + 1)

InitWatched ==
    /\ wpc = "received"
    /\ changes \in SeqsUpTo([URI : WatchedUris, Type : ChangeTypes], MaxChanges)
    /\ analysedUris = <<>>
    /\ publications = <<>>
    /\ DiffOff
    /\ GatewayOff
    /\ CollectOff
    /\ SchedOff
    /\ DiagnoseOff
    /\ SessionOff
    /\ CacheOff
    /\ RequestOff
    /\ LockOff
    /\ LoadOff

\* handleDidChangeWatchedFiles
HandleDidChangeWatchedFiles(paramsOk) ==
    /\ wpc = "received"
    /\ IF ~paramsOk
       THEN \* json.Unmarshal failed: return err
            /\ wpc' = "failed"
            /\ UNCHANGED <<analysedUris, publications>>
       ELSE \E results \in [1..Len(changes) -> CollectResults] :
               /\ wpc' = "handled"
               /\ analysedUris' = AnalysedFrom(changes, 1)
               /\ publications' = PublishedFrom(changes, results, 1)
    /\ UNCHANGED changes
    /\ UNCHANGED <<diffVars, gwVars, collVars, schedVars, diagVars, sessVars,
                   cacheVars, reqVars, lockVars, loadVars>>

NextWatched == \E paramsOk \in BOOLEAN : HandleDidChangeWatchedFiles(paramsOk)

SpecWatched == InitWatched /\ [][NextWatched]_vars

\* ------------------------------------------------- watched files claims

\* The URI ends in ".php".
EndsInDotPhp(uri) ==
    /\ Len(uri) >= 4
    /\ uri[Len(uri) - 3] = "." /\ uri[Len(uri) - 2] = "p"
    /\ uri[Len(uri) - 1] = "h" /\ uri[Len(uri)] = "p"

AnalysesOf(i) == LET Mine(a) == a.change = i IN SelectSeq(analysedUris, Mine)
PublicationsOf(i) == LET Mine(pb) == pb.change = i IN SelectSeq(publications, Mine)

\* C29: of the changes of a workspace/didChangeWatchedFiles notification,
\* each Changed or Created event of a URI ending in .php has the URI analysed
\* once and one diagnostics list published for it, each Deleted event of such
\* a URI has the empty list published for it and no analysis, and a change of
\* any other file causes no analysis and no publication.
WatchedFilesDispatch ==
    wpc = "handled" =>
        \A i \in 1..Len(changes) :
            IF ~EndsInDotPhp(changes[i].URI)
            THEN AnalysesOf(i) = <<>> /\ PublicationsOf(i) = <<>>
            ELSE IF changes[i].Type = "Deleted"
            THEN /\ AnalysesOf(i) = <<>>
                 /\ Len(PublicationsOf(i)) = 1
                 /\ PublicationsOf(i)[1].params.URI = changes[i].URI
                 /\ Marshal(PublicationsOf(i)[1].params.Diagnostics).array = <<>>
            ELSE /\ AnalysesOf(i) = << [change |-> i, uri |-> changes[i].URI] >>
                 /\ Len(PublicationsOf(i)) = 1
                 /\ PublicationsOf(i)[1].params.URI = changes[i].URI

\* One notification carried a change of a PHP file and a change of a file
\* whose name only holds "php": the first was analysed and published, the
\* second was not.
WatchedFilesDispatchWitness ==
    /\ wpc = "handled"
    /\ Len(changes) = 2
    /\ changes[1].URI = <<"a", ".", "p", "h", "p">> /\ changes[1].Type = "Changed"
    /\ changes[2].URI = <<"a", ".", "p", "h", "p", "s">> /\ changes[2].Type = "Created"
    /\ Len(analysedUris) = 1
    /\ Len(publications) = 1

\* C30: the diagnostics of every publishDiagnostics notification are an
\* array and never null: the nil slice is sent as the empty array, and a
\* slice that is not nil is sent as it was passed, element for element.
PublishedDiagnosticsNeverNull ==
    \A n \in 1..Len(publications) :
        /\ ~Marshal(publications[n].params.Diagnostics).null
        /\ Marshal(publications[n].params.Diagnostics).array = publications[n].passed.elems

\* The nil slice that collectDiagnostics returned for one file and the
\* diagnostics it returned for another were published by one notification.
PublishedDiagnosticsNeverNullWitness ==
    /\ Len(publications) = 2
    /\ publications[1].passed.nil
    /\ Len(publications[2].passed.elems) = MaxDiags

\* ------------------------------------------------------ the document cache

\* Most document notifications of one run.
MaxNotes == 3

\* The contents a notification carries. A didSave notification carries the
\* text only when the client includes it.
Texts == { <<"x">>, <<"y">> }
NoText == [carried |-> FALSE, text |-> <<>>]
Carried(text) == [carried |-> TRUE, text |-> text]

Note(method, uri, carries) == [method |-> method, uri |-> uri, carries |-> carries]

\* A close that leaves the entry in the cache.
KeepOnClose(docs, uri) == docs

\* setDocumentContent: stores the content under the URI.
SetDocumentContent(docs, uri, text) ==
    [docs EXCEPT ![uri] = [exists |-> TRUE, content |-> text]]

\* deleteDocumentContent: removes the entry of the URI.
DeleteDocumentContent(docs, uri) == [docs EXCEPT ![uri] = NoDocument]

\* An update replaces the content of the entry the open created; a URI
\* without an entry gets none.
UpdateDocumentContent(docs, uri, text) ==
    IF docs[uri].exists THEN SetDocumentContent(docs, uri, text) ELSE docs

InitCache ==
    /\ documents = [u \in Uris |-> NoDocument]
    /\ notes = <<>>
    /\ DiffOff
    /\ GatewayOff
    /\ CollectOff
    /\ SchedOff
    /\ DiagnoseOff
    /\ SessionOff
    /\ WatchedOff
    /\ RequestOff
    /\ LockOff
    /\ LoadOff

\* textDocument/didOpen: caches the content.
DidOpen(uri, text) ==
    /\ Len(notes) < MaxNotes
    /\ notes' = Append(notes, Note("didOpen", uri, Carried(text)))
    /\ documents' = SetDocumentContent(documents, uri, text)
    /\ UNCHANGED <<diffVars, gwVars, collVars, schedVars, diagVars, sessVars,
                   watchVars, reqVars, lockVars, loadVars>>

\* textDocument/didChange: updates the cached content.
DidChange(uri, text) ==
    /\ Len(notes) < MaxNotes
    /\ notes' = Append(notes, Note("didChange", uri, Carried(text)))
    /\ documents' = UpdateDocumentContent(documents, uri, text)
    /\ UNCHANGED <<diffVars, gwVars, collVars, schedVars, diagVars, sessVars,
                   watchVars, reqVars, lockVars, loadVars>>

\* textDocument/didSave: updates the content with the text it carries, if any.
DidSave(uri, carries) ==
    /\ Len(notes) < MaxNotes
    /\ notes' = Append(notes, Note("didSave", uri, carries))
    /\ documents' = IF carries.carried
                    THEN UpdateDocumentContent(documents, uri, carries.text)
                    ELSE documents
    /\ UNCHANGED <<diffVars, gwVars, collVars, schedVars, diagVars, sessVars,
                   watchVars, reqVars, lockVars, loadVars>>

\* textDocument/didClose: evicts the cached content.
DidClose(uri) ==
    /\ Len(notes) < MaxNotes
    /\ notes' = Append(notes, Note("didClose", uri, NoText))
    /\ documents' = DeleteDocumentContent(documents, uri)
    /\ UNCHANGED <<diffVars, gwVars, collVars, schedVars, diagVars, sessVars,
                   watchVars, reqVars, lockVars, loadVars>>

NextCache ==
    \/ \E uri \in Uris, text \in Texts : DidOpen(uri, text)
    \/ \E uri \in Uris, text \in Texts : DidChange(uri, text)
    \/ \E uri \in Uris, carries \in {NoText} \cup {Carried(t) : t \in Texts} : DidSave(uri, carries)
    \/ \E uri \in Uris : DidClose(uri)

SpecCache == InitCache /\ [][NextCache]_vars

\* ----------------------------------------------------- document cache claims

\* The notifications about a URI that open or close it, and those that carry
\* a content for it while it is open.
OpensAndCloses(uri) ==
    {i \in 1..Len(notes) : notes[i].uri = uri /\ notes[i].method \in {"didOpen", "didClose"}}

LastOf(S) == CHOOSE i \in S : \A j \in S : j <= i

OpenNow(uri) ==
    /\ OpensAndCloses(uri) # {}
    /\ notes[LastOf(OpensAndCloses(uri))].method = "didOpen"

CarriedFor(uri) ==
    {i \in 1..Len(notes) : notes[i].uri = uri /\ notes[i].carries.carried}

FormatContent == Text(<< <<"a">>, <<"b">> >>)

FormatScript ==
    << Entry("ctx", <<"a">>), Entry("del", <<"b">>), Entry("add", <<"c">>) >>

ToolOutputs == { <<>>, <<" ", NL>>, DiffText(FormatScript) \o <<NL>>, <<"x">> }

Returned(text, err) == [kind |-> "returned", content |-> text, err |-> err]

\* An error return that carries no content.
NothingOnError(text) == <<>>

\* `return content, fmt.Errorf(...)`: every error return of Format.
ContentOnError(text) == text

\* string(result.Stdout): the gateway counts the writes of the process, the
\* tool writes its whole output or nothing.
StdoutText(res, output) == IF res.Stdout.len = 0 THEN <<>> ELSE output

\* Format from the return of RunCommandInContainer on; ctxDone is
\* ctx.Err() != nil. ApplyUnifiedDiff returns no error, so the
\* "failed to apply diff" return is never taken.
FormatResult(text, res, ctxDone, output) ==
    IF res.Err # NilErr
    THEN IF ctxDone
         THEN Returned(ContentOnError(text), "formatting cancelled")
         ELSE Returned(ContentOnError(text), "command failed")
    ELSE IF res.ExitCode # 8 /\ res.ExitCode # 0
    THEN Returned(ContentOnError(text), "exit code")
    ELSE LET trimmed == TrimSpace(StdoutText(res, output)) IN
         IF trimmed = <<>> THEN Returned(text, "nil")
         ELSE Returned(ApplyUnifiedDiff(text, trimmed), "nil")

\* The single text edit that replaces the whole document.
WholeDocumentEdit(text, newText) ==
    LET lines == Split(text) IN
    [Range |-> Range(0, 0, Len(lines) - 1, Len(lines[Len(lines)])), NewText |-> newText]

EditsReply(edits) == [kind |-> "edits", edits |-> edits]
ErrorReply == [kind |-> "error", edits |-> <<>>]
Message(type, about) == [type |-> type, about |-> about]

InitRequest ==
    /\ reqMethod \in {"textDocument/formatting", "textDocument/didOpen", "Format"}
    /\ rpc = IF reqMethod = "Format" THEN "format" ELSE "call"
    /\ reqCtxErr = "nil"
    /\ hasDeadline \in BOOLEAN
    /\ canFormat \in IF reqMethod = "textDocument/didOpen" THEN {TRUE} ELSE BOOLEAN
    /\ readable \in IF reqMethod = "textDocument/formatting" THEN BOOLEAN ELSE {TRUE}
    /\ fileContent = FormatContent
    /\ toolOutput \in IF reqMethod = "textDocument/didOpen" THEN {<<>>} ELSE ToolOutputs
    /\ ctxFrom = "none"
    /\ rulesLeft \in IF reqMethod = "textDocument/didOpen" THEN {0, 1} ELSE {0}
    /\ fmtReturn = NotReturned
    /\ reqReply = NoReply
    /\ shown = <<>>
    /\ gpc = "off"
    /\ ctxErr = "nil"
    /\ dockerOnPath \in BOOLEAN
    /\ proc = "none"
    /\ waitErr = NoErr
    /\ stdout = NilBytes
    /\ stderr = NilBytes
    /\ done = EmptyChan
    /\ ret = NoResult
    /\ cancelledFirst = FALSE
    /\ DiffOff
    /\ CollectOff
    /\ SchedOff
    /\ DiagnoseOff
    /\ SessionOff
    /\ WatchedOff
    /\ CacheOff
    /\ LockOff
    /\ LoadOff

\* The ctx of the caller is cancelled or, when it carries a deadline, expires.
\* A ctx derived from it is done with it.
RequestCtxDone ==
    /\ rpc \in {"call", "format", "run"}
    /\ reqCtxErr = "nil"
    /\ (rpc = "run" /\ ctxFrom # "background") => gpc \in {"call", "select"}
    /\ \E e \in {"canceled"} \cup (IF hasDeadline THEN {"deadlineExceeded"} ELSE {}) :
          /\ reqCtxErr' = e
          /\ IF rpc = "run" /\ ctxFrom \in {"request", "timeout"} /\ ctxErr = "nil"
             THEN /\ ctxErr' = e
                  /\ cancelledFirst' = (proc # "exited")
             ELSE UNCHANGED <<ctxErr, cancelledFirst>>
    /\ UNCHANGED <<gpc, dockerOnPath, proc, waitErr, stdout, stderr, done, ret>>
    /\ UNCHANGED <<rpc, reqMethod, hasDeadline, canFormat, readable, fileContent,
                   toolOutput, ctxFrom, rulesLeft, fmtReturn, reqReply, shown>>
    /\ UNCHANGED <<diffVars, collVars, schedVars, diagVars, sessVars, watchVars, cacheVars, lockVars, loadVars>>

\* The timeout Format added with context.WithTimeout expires.
TimeoutExpires ==
    /\ rpc = "run"
    /\ ctxFrom = "timeout"
    /\ ctxErr = "nil"
    /\ gpc \in {"call", "select"}
    /\ ctxErr' = "deadlineExceeded"
    /\ cancelledFirst' = (proc # "exited")
    /\ UNCHANGED <<gpc, dockerOnPath, proc, waitErr, stdout, stderr, done, ret>>
    /\ UNCHANGED reqVars
    /\ UNCHANGED <<diffVars, collVars, schedVars, diagVars, sessVars, watchVars, cacheVars, lockVars, loadVars>>

\* handleDocumentFormatting up to provider.Format: json.Unmarshal of the
\* parameters (on an error the handler returns it and sends nothing), then
\* os.ReadFile, then loadFormattingProviders, which keeps the providers
\* with Format.Enabled.
HandleDocumentFormatting ==
    /\ rpc = "call"
    /\ reqMethod = "textDocument/formatting"
    /\ \E paramsOk \in BOOLEAN :
          IF ~paramsOk
          THEN rpc' = "failed" /\ UNCHANGED reqReply
          ELSE IF ~readable
          THEN reqReply' = ErrorReply /\ rpc' = "done"
          ELSE IF ~canFormat
          THEN reqReply' = EditsReply(<<>>) /\ rpc' = "done"
          ELSE rpc' = "format" /\ UNCHANGED reqReply
    /\ UNCHANGED <<reqMethod, reqCtxErr, hasDeadline, canFormat, readable, fileContent,
                   toolOutput, ctxFrom, rulesLeft, fmtReturn, shown>>
    /\ UNCHANGED <<diffVars, gwVars, collVars, schedVars, diagVars, sessVars,
                   watchVars, cacheVars, lockVars, loadVars>>

\* Format up to RunCommandInContainer(ctx, ...): the CanFormat test, and the
\* timeout added when ctx carries no deadline.
FormatCall ==
    /\ rpc = "format"
    /\ IF ~canFormat
       THEN /\ fmtReturn' = Returned(ContentOnError(fileContent), "not enabled")
            /\ rpc' = "formatted"
            /\ UNCHANGED <<ctxFrom, gpc, ctxErr, cancelledFirst>>
       ELSE /\ ctxFrom' = IF hasDeadline THEN "request" ELSE "timeout"
            /\ gpc' = "call"
            /\ ctxErr' = reqCtxErr
            /\ cancelledFirst' = (reqCtxErr # "nil")
            /\ rpc' = "run"
            /\ UNCHANGED fmtReturn
    /\ UNCHANGED <<dockerOnPath, proc, waitErr, stdout, stderr, done, ret>>
    /\ UNCHANGED <<reqMethod, reqCtxErr, hasDeadline, canFormat, readable, fileContent,
                   toolOutput, rulesLeft, reqReply, shown>>
    /\ UNCHANGED <<diffVars, collVars, schedVars, diagVars, sessVars, watchVars, cacheVars, lockVars, loadVars>>

\* Format from the return of RunCommandInContainer to its own return.
FormatReturns ==
    /\ rpc = "run"
    /\ ctxFrom \in {"request", "timeout"}
    /\ gpc = "returned"
    /\ fmtReturn' = FormatResult(fileContent, ret, ctxErr # "nil", toolOutput)
    /\ rpc' = "formatted"
    /\ UNCHANGED <<reqMethod, reqCtxErr, hasDeadline, canFormat, readable, fileContent,
                   toolOutput, ctxFrom, rulesLeft, reqReply, shown>>
    /\ UNCHANGED <<diffVars, gwVars, collVars, schedVars, diagVars, sessVars,
                   watchVars, cacheVars, lockVars, loadVars>>

\* handleDocumentFormatting after provider.Format returned: on an error the
\* warning or the error message and the empty list, otherwise the edits.
FormattingReply ==
    /\ rpc = "formatted"
    /\ reqMethod = "textDocument/formatting"
    /\ IF fmtReturn.err # "nil"
       THEN /\ shown' = Append(shown,
                   IF reqCtxErr # "nil"
                   THEN Message("warning", "Formatting operation was cancelled")
                   ELSE Message("error", fmtReturn.err))
            /\ reqReply' = EditsReply(<<>>)
       ELSE IF fmtReturn.content = fileContent
       THEN reqReply' = EditsReply(<<>>) /\ UNCHANGED shown
       ELSE /\ reqReply' = EditsReply(<< WholeDocumentEdit(fileContent, fmtReturn.content) >>)
            /\ UNCHANGED shown
    /\ rpc' = "done"
    /\ UNCHANGED <<reqMethod, reqCtxErr, hasDeadline, canFormat, readable, fileContent,
                   toolOutput, ctxFrom, rulesLeft, fmtReturn>>
    /\ UNCHANGED <<diffVars, gwVars, collVars, schedVars, diagVars, sessVars,
                   watchVars, cacheVars, lockVars, loadVars>>

\* handleDidOpen: collectDiagnostics(ctx, ...) calls p.Analyze(filePath), and
\* Analyze calls RunCommandInContainer(context.Background(), ...).
HandleDocumentNotification ==
    /\ rpc = "call"
    /\ reqMethod = "textDocument/didOpen"
    /\ ctxFrom' = "background"
    /\ gpc' = "call"
    /\ rpc' = "run"
    /\ UNCHANGED <<ctxErr, dockerOnPath, proc, waitErr, stdout, stderr, done, ret,
                   cancelledFirst>>
    /\ UNCHANGED <<reqMethod, reqCtxErr, hasDeadline, canFormat, readable, fileContent,
                   toolOutput, rulesLeft, fmtReturn, reqReply, shown>>
    /\ UNCHANGED <<diffVars, collVars, schedVars, diagVars, sessVars, watchVars, cacheVars, lockVars, loadVars>>

\* Analyze after a run returned: on an error it returns; otherwise it runs
\* the next rule, again with context.Background(), or returns after the last
\* one, and the handler publishes.
AnalyzeContinues ==
    /\ rpc = "run"
    /\ ctxFrom = "background"
    /\ gpc = "returned"
    /\ IF ret.Err = NilErr /\ rulesLeft > 0
       THEN /\ rulesLeft' = rulesLeft - 1
            /\ gpc' = "call"
            /\ proc' = "none"
            /\ waitErr' = NoErr
            /\ stdout' = NilBytes
            /\ stderr' = NilBytes
            /\ done' = EmptyChan
            /\ ret' = NoResult
            /\ UNCHANGED <<rpc, reqReply>>
       ELSE /\ rpc' = "done"
            /\ reqReply' = [kind |-> "published", edits |-> <<>>]
            /\ UNCHANGED <<rulesLeft, gpc, proc, waitErr, stdout, stderr, done, ret>>
    /\ UNCHANGED <<ctxErr, dockerOnPath, cancelledFirst>>
    /\ UNCHANGED <<reqMethod, reqCtxErr, hasDeadline, canFormat, readable, fileContent,
                   toolOutput, ctxFrom, fmtReturn, shown>>
    /\ UNCHANGED <<diffVars, collVars, schedVars, diagVars, sessVars, watchVars, cacheVars, lockVars, loadVars>>

NextRequest ==
    \/ RequestCtxDone
    \/ TimeoutExpires
    \/ HandleDocumentFormatting
    \/ FormatCall
    \/ FormatReturns
    \/ FormattingReply
    \/ HandleDocumentNotification
    \/ AnalyzeContinues
    \/ Start
    \/ CopyBegins
    \/ ProcWrites
    \/ ProcExits
    \/ CtxKills
    \/ WaitReturns
    \/ SelectDone
    \/ SelectCtxDone
    \/ CancelReturns

SpecRequest == InitRequest /\ [][NextRequest]_vars

\* ------------------------------------------------------------ request claims

\* C21: when a formatting request is cancelled or times out, the reply is
\* the empty list of text edits and no message is shown to the user.
FormattingCancellationIsSilent ==
    (rpc = "done" /\ fmtReturn.err = "formatting cancelled") =>
        /\ reqReply = EditsReply(<<>>)
        /\ shown = <<>>

\* C22: whenever Format returns an error, the content it returns is the
\* content the caller passed.
FormatErrorReturnsOriginal ==
    (fmtReturn.kind = "returned" /\ fmtReturn.err # "nil") =>
        fmtReturn.content = fileContent

\* Format returned an error for exit code 1 after the tool had written a
\* diff, and in another run for a cancelled ctx.
FormatErrorReturnsOriginalWitness ==
    /\ fmtReturn.err = "exit code"
    /\ ret.Stdout.len > 0
    /\ toolOutput = DiffText(FormatScript) \o <<NL>>

\* C23: while a process runs on behalf of a request whose ctx is done, the
\* ctx the gateway was called with is done too, for formatting as for
\* diagnostics.
CancellationReachesGateway ==
    (rpc = "run" /\ gpc \in {"call", "select", "waitDone"} /\ reqCtxErr # "nil") =>
        ctxErr # "nil"

\* C25: a process that ends on its own with exit code c, with ctx not done,
\* is reported as ExitCode = c, Err = nil and the captured output, and Format
\* tells the codes apart: 8 is a success, any other non-zero code an error.
ExitCodeReportedStructurally ==
    (gpc = "returned" /\ ctxErr = "nil" /\ waitErr.kind = "exit") =>
        /\ ret = CommandResult(stdout, stderr, waitErr.code, NilErr)
        /\ fmtReturn.kind = "returned" =>
              (fmtReturn.err = "nil" <=> waitErr.code = 8)

\* The tool ended with exit code 8 and Format returned the changed content.
ExitCodeReportedStructurallyWitness ==
    /\ gpc = "returned"
    /\ ctxErr = "nil"
    /\ waitErr = ExitError(8)
    /\ fmtReturn.kind = "returned"
    /\ fmtReturn.content = Text(<< <<"a">>, <<"c">> >>)
    /\ reqReply.kind = "edits" /\ Len(reqReply.edits) = 1

\* C37: every external process runs under a ctx that carries a deadline,
\* the one of the caller or the timeout added for the run, when it serves
\* diagnostics as when it serves formatting.
EveryRunHasDeadline ==
    (rpc = "run" /\ gpc \in {"call", "select", "waitDone"}) =>
        \/ ctxFrom = "timeout"
        \/ ctxFrom = "request" /\ hasDeadline

\* C40: every textDocument/formatting request is answered: once its
\* handler has returned, one reply, the edits or an error, has been sent.
FormattingAlwaysReplies ==
    (reqMethod = "textDocument/formatting" /\ rpc \in {"done", "failed"}) =>
        reqReply.kind \in {"edits", "error"}

====
